---------------------------- MODULE Spec2Model ----------------------------
(***************************************************************************)
(* Model of the GSCore protocol engine (src/src/GSModule/GSCore.cpp): the  *)
(* receive state machine, the rx_data ring buffer with its inline frame    *)
(* header records, the synchronous response parser and the asynchronous    *)
(* event dispatcher.                                                       *)
(*                                                                         *)
(* The engine object is the record gs; its fields carry the names of the   *)
(* GSCore members.  gs.serial is the byte stream behind this->serial: the  *)
(* bytes the module has sent and readRaw() has not yet taken.  Fields      *)
(* whose name starts with g_ are history fields read only by properties.   *)
(* Bytes are integers (ASCII codes).                                       *)
(*                                                                         *)
(* GSCore.h is not part of the sources.  The sizes it fixes (rx_data,      *)
(* rx_async, RXFrame, MAX_CID, the integer types of the members) are       *)
(* taken here at small values inside the envelope that the static_asserts  *)
(* of the constructor (lines 60-67) and the text of the specification      *)
(* allow; the index type of the ring is taken to range exactly over the    *)
(* buffer ("two cursors wrapping modulo capacity").                        *)
(***************************************************************************)
EXTENDS Integers, Sequences, FiniteSets, TLC

VARIABLES gs, op

vars == <<gs, op>>

\* F applied to the value of v, which is computed once: the state that one
\* step of an operation leaves is computed by that step and used by the next.
On(v, F(_)) == CHOOSE y \in {F(x) : x \in {v}} : TRUE

(***************************** sizes and types ****************************)

\* sizeof(rx_data): a power of two (static_assert, line 67).
RX_DATA_SIZE == 8

\* Number of values of rx_data_index_t (line 61 allows max == size - 1).
RX_DATA_INDEX_RANGE == RX_DATA_SIZE

\* sizeof(RXFrame), in cells of rx_data.
FRAME_SIZE == 3

\* sizeof(rx_async).
RX_ASYNC_SIZE == 16

\* Number of values of rx_async_left and rx_async_len (uint8_t).
UINT8_RANGE == 256

\* Number of values of RXFrame::length (parsed by the uint16_t parseNumber).
UINT16_RANGE == 65536

MAX_CID == 15

INVALID_CID == 255

ANY_CID == 254

GS_ASYNC_MAX == 12

\* Byte values the engine tests for.
CH_ESC == 27

CH_TAB == 9

CH_LF == 10

CH_CR == 13

CH_SP == 32

CH_DOT == 46

Ch(s) ==
  CASE s = "0" -> 48 [] s = "1" -> 49 [] s = "2" -> 50 [] s = "3" -> 51
    [] s = "4" -> 52 [] s = "5" -> 53 [] s = "6" -> 54 [] s = "7" -> 55
    [] s = "8" -> 56 [] s = "9" -> 57
    [] s = "A" -> 65 [] s = "F" -> 70 [] s = "K" -> 75 [] s = "O" -> 79
    [] s = "Q" -> 81 [] s = "T" -> 84 [] s = "Z" -> 90
    [] s = "a" -> 97 [] s = "b" -> 98 [] s = "c" -> 99 [] s = "f" -> 102
    [] s = "g" -> 103 [] s = "o" -> 111 [] s = "y" -> 121 [] s = "z" -> 122
    [] s = "#" -> 35

Dec8(x) == (x + UINT8_RANGE - 1) % UINT8_RANGE

Dec16(x) == (x + UINT16_RANGE - 1) % UINT16_RANGE

IdxMod(x) == ((x % RX_DATA_SIZE) + RX_DATA_SIZE) % RX_DATA_SIZE

SubSeqFrom(s, i) == IF i > Len(s) THEN <<>> ELSE SubSeq(s, i, Len(s))

(******************************* parseNumber ******************************)

\* One digit as parseNumber(uint16_t*) reads it: -1 when it is no digit or
\* letter.  The value is not compared with the base.
DigitValue(c) ==
  IF c >= 48 /\ c <= 57 THEN c - 48
  ELSE IF c >= 97 /\ c <= 122 THEN 10 + (c - 97)
  ELSE IF c >= 65 /\ c <= 90 THEN 10 + (c - 65)
  ELSE -1

RECURSIVE parseNumberLoop(_, _, _)
parseNumberLoop(result, buf, base) ==
  IF buf = <<>> THEN [ok |-> TRUE, val |-> result]
  ELSE IF result > (UINT16_RANGE - 1) \div 10 THEN [ok |-> FALSE, val |-> 0]
  ELSE IF DigitValue(Head(buf)) < 0 THEN [ok |-> FALSE, val |-> 0]
  ELSE parseNumberLoop((result * base + DigitValue(Head(buf))) % UINT16_RANGE,
                       Tail(buf), base)

\* bool parseNumber(uint16_t *out, buf, len, base); buf holds the len bytes.
parseNumber16(buf, base) ==
  IF base < 2 \/ base > 36 THEN [ok |-> FALSE, val |-> 0]
  ELSE parseNumberLoop(0, buf, base)

\* bool parseNumber(uint8_t *out, buf, len, base).
parseNumber8(buf, base) ==
  On(parseNumber16(buf, base), LAMBDA r :
    IF r.ok /\ r.val > UINT8_RANGE - 1 THEN [ok |-> FALSE, val |-> 0] ELSE r)


(********************************* state **********************************)

\* struct RXFrame.
EmptyFrame ==
  [cid |-> 0, length |-> 0, udp_server |-> FALSE, ip |-> <<0, 0, 0, 0>>, port |-> 0]

\* One entry of connections[], zeroed by memset (line 166).
EmptyConnection ==
  [connected |-> FALSE, error |-> FALSE, ssl |-> FALSE,
   remote_ip |-> 0, remote_port |-> 0, local_port |-> 0]

\* The engine after a successful begin(Stream&) (lines 72-82, 101-169),
\* with the ring cursors at position p and no history.
Engine(p) ==
  [rx_state |-> "IDLE",
   rx_async |-> <<>>,
   rx_async_left |-> 0,
   rx_async_subtype |-> 0,
   head_frame |-> EmptyFrame,
   tail_frame |-> EmptyFrame,
   rx_data |-> [i \in 0..(RX_DATA_SIZE - 1) |-> 0],
   rx_data_head |-> p,
   rx_data_tail |-> p,
   connections |-> [c \in 0..MAX_CID |-> EmptyConnection],
   associated |-> FALSE,
   events |-> {},
   ncm_auto_cid |-> INVALID_CID,
   unrecoverableError |-> FALSE,
   initializing |-> FALSE,
   error |-> FALSE,
   callbacks |-> {},
   serial |-> <<>>,
   transport |-> "serial",
   spi_xoff |-> FALSE,
   spi_prev_was_esc |-> FALSE,
   errorcount |-> 0,
   full_poll |-> TRUE,
   elapsed |-> 0,
   ub |-> "none",
   g_wire |-> <<>>,
   g_io |-> FALSE,
   g_escaped |-> FALSE,
   g_ones |-> 0,
   g_held |-> "none",
   g_reads |-> -1,
   g_latch_at |-> 0,
   g_logical |-> <<>>,
   g_items |-> 0,
   g_frames |-> <<>>,
   g_out |-> <<>>,
   g_drop |-> <<>>,
   g_full |-> FALSE,
   g_cells |-> 0,
   g_exceed |-> FALSE,
   g_reloc |-> FALSE,
   g_declared |-> 0,
   g_bulk |-> 0,
   g_async_n |-> 0,
   g_async_got |-> 0,
   g_async_calls |-> 0,
   g_fired |-> <<>>,
   g_cycle |-> <<>>,
   g_begin |-> [associated |-> FALSE, events |-> {}, ncm_auto_cid |-> INVALID_CID],
   g_done |-> <<>>,
   g_from |-> [associated |-> FALSE, events |-> {}, ncm_auto_cid |-> INVALID_CID],
   g_replaced |-> [cid |-> INVALID_CID, ssl |-> FALSE, error |-> FALSE, delivered |-> FALSE],
   g_acks |-> <<>>]

\* History of the poll cycles: g_cycle lists the events processed since the
\* last dispatch of loop(), g_begin is what that dispatch left; g_done and
\* g_from are the same for the cycle that the last dispatch closed.
NoteEvent(s, event) == [s EXCEPT !.g_cycle = Append(@, event)]

\* Undefined behaviour: the first one is recorded and the model stops there.
Undefined(s, what) == IF s.ub = "none" THEN [s EXCEPT !.ub = what] ELSE s

(***************************** frame records ******************************)

\* memcpy of a RXFrame into FRAME_SIZE cells of rx_data, and back.
SerializeFrame(f) ==
  <<f.cid + UINT8_RANGE * (IF f.udp_server THEN 1 ELSE 0),
    f.length,
    f.port + UINT16_RANGE * (f.ip[1] + UINT8_RANGE * (f.ip[2] + UINT8_RANGE *
                             (f.ip[3] + UINT8_RANGE * f.ip[4])))>>

DeserializeFrame(cells) ==
  LET w == cells[3] \div UINT16_RANGE
  IN  [cid |-> cells[1] % UINT8_RANGE,
       udp_server |-> (cells[1] \div UINT8_RANGE) % 2 = 1,
       length |-> cells[2] % UINT16_RANGE,
       port |-> cells[3] % UINT16_RANGE,
       ip |-> <<w % UINT8_RANGE, (w \div UINT8_RANGE) % UINT8_RANGE,
                (w \div (UINT8_RANGE * UINT8_RANGE)) % UINT8_RANGE,
                (w \div (UINT8_RANGE * UINT8_RANGE * UINT8_RANGE)) % UINT8_RANGE>>]

(******************************* transport ********************************)

\* The field serial holds the bytes the module has ready for the host, on
\* either transport; transport is "serial" after begin(Stream&), "spi" after
\* begin(ss, INVALID_PIN) and "none" after end(). g_wire lists the bytes the
\* host handed to the transport and g_io tells that the transport was used.

\* The reserved wire values of the SPI link and the escape mask.
SPI_SPECIAL_ALL_ONE == 255
SPI_SPECIAL_ALL_ZERO == 0
SPI_SPECIAL_ACK == 252
SPI_SPECIAL_IDLE == 245
SPI_SPECIAL_XOFF == 250
SPI_SPECIAL_XON == 253
SPI_SPECIAL_ESC == 251
SPI_ESC_XOR == 32
SpiSpecials ==
  {SPI_SPECIAL_ALL_ONE, SPI_SPECIAL_ALL_ZERO, SPI_SPECIAL_ACK, SPI_SPECIAL_IDLE,
   SPI_SPECIAL_XOFF, SPI_SPECIAL_XON, SPI_SPECIAL_ESC}

\* a ^ b on uint8_t, bit by bit.
RECURSIVE XorBits(_, _, _)
XorBits(a, b, bits) ==
  IF bits = 0 THEN 0
  ELSE ((a + b) % 2) + 2 * XorBits(a \div 2, b \div 2, bits - 1)
Xor8(a, b) == XorBits(a, b, 8)

\* The dead-link threshold of processSpiSpecial ("++errorcount > 20").
SPI_ERROR_LIMIT == 20
POLL_TRIES == 64
WRITE_TRIES == 1024

\* uint8_t transferSpi(out): one byte each way; a module with nothing to say
\* answers IDLE. g_ones counts the ALL-ONES bytes read in a row that did not
\* follow an ESCAPE introducer.
transferSpi(s, out) ==
  On(IF s.serial = <<>> THEN SPI_SPECIAL_IDLE ELSE Head(s.serial), LAMBDA in :
    [st |-> [s EXCEPT !.serial = IF @ = <<>> THEN @ ELSE Tail(@),
                      !.g_wire = Append(@, out),
                      !.g_io = TRUE,
                      !.g_held = IF ~s.spi_xoff \/ out = SPI_SPECIAL_IDLE THEN @
                                 ELSE IF s.g_wire # <<>>
                                         /\ s.g_wire[Len(s.g_wire)] = SPI_SPECIAL_ESC
                                 THEN (IF @ = "byte" THEN @ ELSE "pair")
                                 ELSE "byte",
                      !.g_escaped = ~s.g_escaped /\ in = SPI_SPECIAL_ESC,
                      !.g_ones = IF s.g_escaped THEN @
                                 ELSE IF in = SPI_SPECIAL_ALL_ONE THEN @ + 1
                                 ELSE 0],
     in |-> in])

\* int processSpiSpecial(c), with the number of ALL-ONES reads it tolerates;
\* errorcount is the function's static counter.
processSpiSpecialAt(s, c, limit) ==
  IF s.spi_prev_was_esc
  THEN [st |-> [s EXCEPT !.spi_prev_was_esc = FALSE], res |-> Xor8(c, SPI_ESC_XOR)]
  ELSE On(IF c # SPI_SPECIAL_ALL_ONE THEN [s EXCEPT !.errorcount = 0] ELSE s,
          LAMBDA t :
    CASE c = SPI_SPECIAL_ALL_ONE ->
           IF t.errorcount + 1 > limit
           THEN [st |-> [t EXCEPT !.unrecoverableError = TRUE,
                                  !.errorcount = 0,
                                  !.g_latch_at = IF t.unrecoverableError THEN @
                                                 ELSE t.g_ones],
                 res |-> -1]
           ELSE [st |-> [t EXCEPT !.errorcount = @ + 1], res |-> -1]
      [] c \in {SPI_SPECIAL_ALL_ZERO, SPI_SPECIAL_ACK, SPI_SPECIAL_IDLE} ->
           [st |-> t, res |-> -1]
      [] c = SPI_SPECIAL_XOFF -> [st |-> [t EXCEPT !.spi_xoff = TRUE], res |-> -1]
      [] c = SPI_SPECIAL_XON -> [st |-> [t EXCEPT !.spi_xoff = FALSE], res |-> -1]
      [] c = SPI_SPECIAL_ESC ->
           [st |-> [t EXCEPT !.spi_prev_was_esc = TRUE], res |-> -1]
      [] OTHER -> [st |-> t, res |-> c])

\* processSpiSpecial() that gives up one ALL-ONES read earlier.
processSpiSpecialEarly(s, c) == processSpiSpecialAt(s, c, SPI_ERROR_LIMIT - 1)

processSpiSpecial(s, c) == processSpiSpecialAt(s, c, SPI_ERROR_LIMIT)

\* isSpiSpecial() without the case of XON.
isSpiSpecialButXon(c) == c \in SpiSpecials \ {SPI_SPECIAL_XON}

isSpiSpecial(c) == c \in SpiSpecials

\* One round of the SPI paths: processSpiSpecial(transferSpi(out)); g_logical
\* lists the logical bytes the rounds returned.
SpiRound(s, out) ==
  On(transferSpi(s, out), LAMBDA x :
    On(processSpiSpecial(x.st, x.in), LAMBDA r :
      IF r.res < 0 THEN r
      ELSE [st |-> [r.st EXCEPT !.g_logical = Append(@, r.res)], res |-> r.res]))

\* The module has nothing ready and the framer is between bytes: a transfer
\* of IDLE reads IDLE and changes nothing but the record of the wire.
SpiQuiet(s) ==
  /\ s.serial = <<>>
  /\ ~s.spi_prev_was_esc /\ s.errorcount = 0
  /\ ~s.g_escaped /\ s.g_ones = 0

\* The do-while of readRaw(): poll until a data byte or the tries are used.
\* On a quiet link every remaining try sends one IDLE and reads one.
RECURSIVE readRawSpi(_, _)
readRawSpi(s, tries) ==
  IF SpiQuiet(s)
  THEN [st |-> [s EXCEPT !.g_wire = @ \o [i \in 1..tries |-> SPI_SPECIAL_IDLE],
                         !.g_io = TRUE],
        c |-> -1]
  ELSE On(SpiRound(s, SPI_SPECIAL_IDLE), LAMBDA r :
         IF r.res = -1 /\ tries - 1 > 0
         THEN readRawSpi(r.st, tries - 1)
         ELSE [st |-> r.st, c |-> r.res])

\* int readRaw(): the next byte of the stream, or -1. Without a data-ready
\* pin the SPI branch polls POLL_TRIES times when the last full poll is
\* MINIMUM_POLL_INTERVAL old (full_poll), and once otherwise. g_reads counts
\* the calls since an operation set it to 0.
readRaw(engine) ==
  On([engine EXCEPT !.g_reads = IF @ < 0 THEN @ ELSE @ + 1], LAMBDA s :
    IF s.unrecoverableError THEN [st |-> s, c |-> -1]
    ELSE IF s.transport = "serial"
    THEN IF s.serial = <<>>
         THEN [st |-> [s EXCEPT !.g_io = TRUE], c |-> -1]
         ELSE [st |-> [s EXCEPT !.serial = Tail(@), !.g_io = TRUE], c |-> Head(s.serial)]
    ELSE IF s.transport = "spi"
    THEN readRawSpi(s, IF s.full_poll THEN POLL_TRIES ELSE 1)
    ELSE [st |-> s, c |-> -1])

RECURSIVE processIncoming(_, _)

(****************************** ring buffer *******************************)

\* loadFrameHeader without the relocation of the tail to index 0.
loadFrameHeaderInPlace(s) ==
  [s EXCEPT !.tail_frame =
               DeserializeFrame([i \in 1..FRAME_SIZE |->
                                   s.rx_data[IdxMod(s.rx_data_tail + i - 1)]]),
            !.rx_data_tail = (s.rx_data_tail + FRAME_SIZE) % RX_DATA_INDEX_RANGE,
            !.g_cells = @ - FRAME_SIZE]

loadFrameHeader(s) ==
  LET t0 == IF RX_DATA_SIZE - s.rx_data_tail < FRAME_SIZE THEN 0 ELSE s.rx_data_tail
  IN  [s EXCEPT !.tail_frame =
                   DeserializeFrame([i \in 1..FRAME_SIZE |-> s.rx_data[t0 + i - 1]]),
                !.rx_data_tail = (t0 + FRAME_SIZE) % RX_DATA_INDEX_RANGE,
                !.g_cells = @ - FRAME_SIZE]

\* while (tail_frame.length == 0) if (!processIncoming(readRaw())) return RXFrame();
RECURSIVE getFrameHeaderPoll(_)
getFrameHeaderPoll(s) ==
  IF s.tail_frame.length # 0 THEN [st |-> s, ok |-> TRUE]
  ELSE On(readRaw(s), LAMBDA r :
         IF r.c < 0 THEN [st |-> r.st, ok |-> FALSE]
         ELSE On(processIncoming(r.st, r.c), LAMBDA t : getFrameHeaderPoll(t)))

\* ok: the frame returned is tail_frame (not the empty RXFrame()).
getFrameHeader(s, cid) ==
  On(IF s.tail_frame.length = 0
     THEN IF s.rx_data_tail # s.rx_data_head
          THEN [st |-> loadFrameHeader(s), ok |-> TRUE]
          ELSE getFrameHeaderPoll(s)
     ELSE [st |-> s, ok |-> TRUE],
     LAMBDA a :
       IF ~a.ok THEN a
       ELSE [st |-> a.st, ok |-> (cid = ANY_CID \/ a.st.tail_frame.cid = cid)])

getData(s) ==
  IF s.rx_data_tail # s.rx_data_head
  THEN [st |-> [s EXCEPT !.rx_data_tail = (@ + 1) % RX_DATA_SIZE,
                         !.tail_frame.length = Dec16(@),
                         !.g_cells = @ - 1],
        c |-> s.rx_data[s.rx_data_tail]]
  ELSE On(readRaw(s), LAMBDA r :
         IF r.c >= 0
         THEN [st |-> [r.st EXCEPT !.tail_frame.length = Dec16(@),
                                   !.head_frame.length = Dec16(@),
                                   !.rx_state = IF Dec16(r.st.head_frame.length) = 0
                                                THEN "IDLE" ELSE @,
                                   !.g_bulk = @ + 1],
               c |-> r.c]
         ELSE [st |-> r.st, c |-> -1])

\* int readData(cid_t cid)
readData(s, cid) ==
  On(getFrameHeader(s, cid), LAMBDA h :
    IF ~h.ok THEN [st |-> h.st, c |-> -1] ELSE getData(h.st))

\* int readData(cid_t *cid)
readDataAny(s) ==
  On(getFrameHeader(s, ANY_CID), LAMBDA h :
    IF ~h.ok THEN [st |-> h.st, c |-> -1, cid |-> INVALID_CID]
    ELSE On(getData(h.st), LAMBDA d :
           [st |-> d.st, c |-> d.c,
            cid |-> IF d.c >= 0 THEN d.st.tail_frame.cid ELSE INVALID_CID]))

\* connections[cid].error = true
SetError(s, cid) ==
  IF cid > MAX_CID THEN Undefined(s, "connections index")
  ELSE [s EXCEPT !.connections[cid].error = TRUE]

RECURSIVE dropData(_, _)
dropData(s, num_bytes) ==
  IF num_bytes = 0 THEN s
  ELSE On(readDataAny(s), LAMBDA r :
         On(IF r.c >= 0
            THEN [SetError(r.st, r.cid) EXCEPT !.g_drop = Append(@, <<r.cid, r.c>>)]
            ELSE r.st,
            LAMBDA t : dropData(t, num_bytes - 1)))

\* Cells that can still be written before the head catches up with the tail.
FreeCells(s) == IdxMod(s.rx_data_tail - s.rx_data_head - 1)

\* Ghosts kept when `cells` cells are written of which `skipped` are the cells
\* skipped by moving the head to index 0: g_cells counts the payload bytes and
\* header records held, g_exceed says that count went over the RX_DATA_SIZE - 1
\* usable cells, g_full that the cells written did not fit before the tail.
NoteRoom(s, cells, skipped) ==
  [s EXCEPT !.g_full = @ \/ cells > FreeCells(s),
            !.g_cells = @ + (cells - skipped),
            !.g_exceed = @ \/ s.g_cells + (cells - skipped) > RX_DATA_SIZE - 1,
            !.g_reloc = @ \/ skipped > 0]

bufferIncomingData(s, c) ==
  LET next_head == (s.rx_data_head + 1) % RX_DATA_SIZE
  IN  On(NoteRoom(s, 1, 0), LAMBDA n :
        On(IF next_head = n.rx_data_tail THEN dropData(n, 1) ELSE n, LAMBDA t :
          [t EXCEPT !.rx_data[t.rx_data_head] = c, !.rx_data_head = next_head]))

\* StoreFrameHeader with a head that can hold the value sizeof(rx_data).
StoreFrameHeaderUnwrapped(s) ==
  LET free == IdxMod(s.rx_data_tail - s.rx_data_head - 1) % UINT8_RANGE
  IN  On(IF free < FRAME_SIZE THEN dropData(s, (FRAME_SIZE - free) % UINT8_RANGE) ELSE s,
         LAMBDA t :
           LET h == t.rx_data_head
               cells == SerializeFrame(t.head_frame)
           IN  IF h + FRAME_SIZE > RX_DATA_SIZE THEN Undefined(t, "rx_data overrun")
               ELSE [t EXCEPT !.rx_data = [i \in 0..(RX_DATA_SIZE - 1) |->
                                             IF i >= h /\ i < h + FRAME_SIZE
                                             THEN cells[i - h + 1]
                                             ELSE t.rx_data[i]],
                              !.rx_data_head = h + FRAME_SIZE])

\* The copy of the record and the advance of the head (lines 1157-1164).
StoreFrameHeader(s) ==
  LET free == IdxMod(s.rx_data_tail - s.rx_data_head - 1) % UINT8_RANGE
  IN  On(IF free < FRAME_SIZE THEN dropData(s, (FRAME_SIZE - free) % UINT8_RANGE) ELSE s,
         LAMBDA t :
           LET h == t.rx_data_head
               cells == SerializeFrame(t.head_frame)
           IN  IF h + FRAME_SIZE > RX_DATA_SIZE THEN Undefined(t, "rx_data overrun")
               ELSE [t EXCEPT !.rx_data = [i \in 0..(RX_DATA_SIZE - 1) |->
                                             IF i >= h /\ i < h + FRAME_SIZE
                                             THEN cells[i - h + 1]
                                             ELSE t.rx_data[i]],
                              !.rx_data_head = (h + FRAME_SIZE) % RX_DATA_INDEX_RANGE])

bufferFrameHeader(s) ==
  IF s.rx_data_head = s.rx_data_tail
  THEN [s EXCEPT !.tail_frame = s.head_frame]
  ELSE On(IF s.rx_data_head > RX_DATA_SIZE - FRAME_SIZE
          THEN On(NoteRoom(s, (RX_DATA_SIZE - s.rx_data_head) + FRAME_SIZE,
                           RX_DATA_SIZE - s.rx_data_head),
                  LAMBDA n :
                    On(IF n.rx_data_tail > n.rx_data_head
                       THEN dropData(n, (n.rx_data_tail - n.rx_data_tail) % UINT8_RANGE)
                       ELSE n,
                       LAMBDA a :
                         On(IF a.rx_data_tail = 0 THEN dropData(a, 1) ELSE a,
                            LAMBDA b : [b EXCEPT !.rx_data_head = 0])))
          ELSE NoteRoom(s, FRAME_SIZE, 0),
          LAMBDA t : StoreFrameHeader(t))


(**************************** connection table ****************************)

processDisconnect(s, cid) ==
  IF cid > MAX_CID THEN Undefined(s, "connections index")
  ELSE IF ~s.connections[cid].connected THEN s
  ELSE IF cid = s.ncm_auto_cid
  THEN [s EXCEPT !.connections[cid].connected = FALSE,
                 !.connections[cid].ssl = FALSE,
                 !.ncm_auto_cid = INVALID_CID,
                 !.events = IF "NCM_CONNECTED" \in @
                            THEN @ \ {"NCM_CONNECTED"}
                            ELSE @ \cup {"NCM_DISCONNECTED"}]
  ELSE [s EXCEPT !.connections[cid].connected = FALSE,
                 !.connections[cid].ssl = FALSE]

\* g_replaced is the connection the last processConnect() found connected.
NoteReplaced(s, cid) ==
  [s EXCEPT !.g_replaced =
     [cid |-> cid, ssl |-> s.connections[cid].ssl, error |-> s.connections[cid].error,
      delivered |-> s.ncm_auto_cid = cid /\ "NCM_CONNECTED" \notin s.events]]

\* processConnect() without the disconnect of a CID that is still connected.
processConnectOver(s, cid, remote_ip, remote_port, local_port, ncm) ==
  IF cid > MAX_CID THEN Undefined(s, "connections index")
  ELSE On(IF ncm THEN [s EXCEPT !.ncm_auto_cid = cid,
                                !.events = @ \cup {"NCM_CONNECTED"}]
          ELSE s,
          LAMBDA b :
            [b EXCEPT !.connections[cid].remote_ip = remote_ip,
                      !.connections[cid].remote_port = remote_port,
                      !.connections[cid].local_port = local_port,
                      !.connections[cid].error = FALSE,
                      !.connections[cid].connected = TRUE])

processConnect(s, cid, remote_ip, remote_port, local_port, ncm) ==
  IF cid > MAX_CID THEN Undefined(s, "connections index")
  ELSE On(IF s.connections[cid].connected
          THEN processDisconnect(NoteReplaced(s, cid), cid)
          ELSE s,
          LAMBDA a :
            On(IF ncm THEN [a EXCEPT !.ncm_auto_cid = cid,
                                     !.events = @ \cup {"NCM_CONNECTED"}]
               ELSE a,
               LAMBDA b :
                 [b EXCEPT !.connections[cid].remote_ip = remote_ip,
                           !.connections[cid].remote_port = remote_port,
                           !.connections[cid].local_port = local_port,
                           !.connections[cid].error = FALSE,
                           !.connections[cid].connected = TRUE]))

\* The cascade without error = true.
RECURSIVE DisconnectAllSilently(_, _)
DisconnectAllSilently(s, cid) ==
  IF cid > MAX_CID THEN s
  ELSE On(IF s.connections[cid].connected THEN processDisconnect(s, cid) ELSE s,
          LAMBDA t : DisconnectAllSilently(t, cid + 1))

\* for (cid = 0; cid <= MAX_CID; ++cid) if (connected) { error = true; processDisconnect(cid); }
RECURSIVE DisconnectAll(_, _)
DisconnectAll(s, cid) ==
  IF cid > MAX_CID THEN s
  ELSE On(IF s.connections[cid].connected
          THEN processDisconnect([s EXCEPT !.connections[cid].error = TRUE], cid)
          ELSE s,
          LAMBDA t : DisconnectAll(t, cid + 1))

\* processDisassociation() without the cancellation of a pending association
\* event.
processDisassociationAlways(s) ==
  IF ~s.associated THEN s
  ELSE DisconnectAll([s EXCEPT !.events = @ \cup {"DISASSOCIATED"},
                               !.associated = FALSE],
                     0)


processDisassociation(s) ==
  IF ~s.associated THEN s
  ELSE DisconnectAll([s EXCEPT !.events = IF "ASSOCIATED" \in @
                                          THEN @ \ {"ASSOCIATED"}
                                          ELSE @ \cup {"DISASSOCIATED"},
                               !.associated = FALSE],
                     0)

processAssociation(s) ==
  On(IF s.associated THEN processDisassociation(s) ELSE s, LAMBDA a :
    [a EXCEPT !.associated = TRUE, !.events = @ \cup {"ASSOCIATED"}])

(***************************** response codes *****************************)

\* enum GSResponse, by value 0..18 (GS_RESPONSE_MAX == 18, line 1280).
GSResponseNames ==
  <<"SUCCESS", "FAILURE", "EINVAL", "SOCK_FAIL", "ENOCID", "EBADCID", "ENOTSUP",
    "CON_SUCCESS", "ECIDCLOSE", "LINK_LOST", "DISASSO_EVT", "STBY_TMR_EVT",
    "STBY_ALM_EVT", "DPSLEEP_EVT", "BOOT_UNEXPEC", "ENOIP", "BOOT_INTERNAL",
    "BOOT_EXTERNAL", "NWCONN_SUCCESS">>

GSResponseOf(n) == GSResponseNames[n + 1]

GSResponseValue(name) == CHOOSE n \in 0..18 : GSResponseNames[n + 1] = name

(***************************** async dispatcher ***************************)

\* enum GSAsync (lines 1379-1399), by value 0x0..0xc.
GSAsyncNames ==
  <<"SOCK_FAIL", "CON_SUCCESS", "ECIDCLOSE", "DISASSO_EVT", "STBY_TMR_EVT",
    "STBY_ALM_EVT", "DPSLEEP_EVT", "BOOT_UNEXPEC", "ENOIP", "BOOT_INTERNAL",
    "BOOT_EXTERNAL", "FAILURE", "NWCONN_SUCCESS">>

\* The switch of processAsync on a validated message (lines 1435-1540).
AsyncSwitch(s, args) ==
  LET kind == GSAsyncNames[s.rx_async_subtype + 1]
      arg_len == Len(args)
  IN  IF kind \in {"CON_SUCCESS", "SOCK_FAIL", "ECIDCLOSE"}
      THEN IF arg_len # 2 THEN [st |-> s, ok |-> FALSE]
           ELSE On(parseNumber8(<<args[2]>>, 16), LAMBDA n :
                  IF ~n.ok THEN [st |-> s, ok |-> FALSE]
                  ELSE IF kind = "CON_SUCCESS"
                  THEN [st |-> processConnect(NoteEvent(s, <<"connect", n.val>>),
                                              n.val, 0, 0, 0, TRUE),
                        ok |-> TRUE]
                  ELSE On(IF s.rx_async_subtype = GSResponseValue("SOCK_FAIL")
                          THEN SetError(s, n.val) ELSE s,
                          LAMBDA a :
                            [st |-> processDisconnect(
                                      NoteEvent(a, <<"disconnect", n.val>>), n.val),
                             ok |-> TRUE]))
      ELSE IF arg_len > 0 THEN [st |-> s, ok |-> FALSE]
      ELSE IF kind \in {"DISASSO_EVT", "ENOIP"}
      THEN [st |-> processDisassociation(NoteEvent(s, <<"disassociate">>)), ok |-> TRUE]
      ELSE IF kind \in {"BOOT_UNEXPEC", "BOOT_INTERNAL", "BOOT_EXTERNAL"}
      THEN [st |-> s, ok |-> s.initializing]
      ELSE IF kind = "NWCONN_SUCCESS"
      THEN [st |-> processAssociation(NoteEvent(s, <<"associate">>)), ok |-> TRUE]
      ELSE [st |-> s, ok |-> FALSE]

\* processAsync() without the comparison of the two subtypes.
processAsyncUncompared(s) ==
  IF s.rx_async_subtype > GS_ASYNC_MAX THEN [st |-> s, ok |-> FALSE]
  ELSE IF Len(s.rx_async) < 1 THEN [st |-> s, ok |-> FALSE]
  ELSE On(parseNumber8(<<s.rx_async[1]>>, 16), LAMBDA sub :
         IF ~sub.ok THEN [st |-> s, ok |-> FALSE]
         ELSE IF Len(s.rx_async) > 1 /\ s.rx_async[2] # CH_SP THEN [st |-> s, ok |-> FALSE]
         ELSE AsyncSwitch(s, Tail(s.rx_async)))


processAsync(s) ==
  IF s.rx_async_subtype > GS_ASYNC_MAX THEN [st |-> s, ok |-> FALSE]
  ELSE IF Len(s.rx_async) < 1 THEN [st |-> s, ok |-> FALSE]
  ELSE On(parseNumber8(<<s.rx_async[1]>>, 16), LAMBDA sub :
         IF ~sub.ok THEN [st |-> s, ok |-> FALSE]
         ELSE IF sub.val # s.rx_async_subtype THEN [st |-> s, ok |-> FALSE]
         ELSE IF Len(s.rx_async) > 1 /\ s.rx_async[2] # CH_SP THEN [st |-> s, ok |-> FALSE]
         ELSE AsyncSwitch(s, Tail(s.rx_async)))

(***************************** parseIpAddress *****************************)

RECURSIVE parseIpLoop(_, _, _)
parseIpLoop(ip, i, str) ==
  IF str = <<>> \/ Head(str) = 0 THEN [ok |-> TRUE, ip |-> ip]
  ELSE IF Head(str) = CH_DOT
       THEN IF i + 1 >= 4 THEN [ok |-> FALSE, ip |-> ip]
            ELSE parseIpLoop([ip EXCEPT ![i + 2] = 0], i + 1, Tail(str))
  ELSE IF Head(str) < 48 \/ Head(str) > 57 THEN [ok |-> FALSE, ip |-> ip]
  ELSE IF ip[i + 1] >= 100 \/ (ip[i + 1] = 25 /\ Head(str) > 53)
       THEN [ok |-> FALSE, ip |-> ip]
  ELSE parseIpLoop([ip EXCEPT ![i + 1] = (@ * 10 + (Head(str) - 48)) % UINT8_RANGE],
                   i, Tail(str))

\* bool parseIpAddress(IPAddress *ip, const char *str, uint16_t len): str
\* holds the len bytes, followed by rest (read when len == 0: end == NULL).
parseIpAddress(str, rest) ==
  parseIpLoop(<<0, 0, 0, 0>>, 0, IF str = <<>> THEN rest ELSE str)


(**************************** RX state machine ****************************)

\* if (rx_async_len < sizeof(rx_async)) rx_async[rx_async_len++] = c;
\* rx_async holds the rx_async_len bytes stored since the last reset.
StoreAsync(s, c) ==
  IF Len(s.rx_async) < RX_ASYNC_SIZE THEN [s EXCEPT !.rx_async = Append(@, c)] ELSE s

\* Index of the first byte equal to c in buf at or after position from, or 0.
RECURSIVE ScanFor(_, _, _)
ScanFor(buf, from, c) ==
  IF from > Len(buf) THEN 0
  ELSE IF buf[from] = c THEN from
  ELSE ScanFor(buf, from + 1, c)

\* A frame header is complete and valid (lines 968-978, 1034-1050).
AcceptFrame(s, frame) ==
  On(bufferFrameHeader([s EXCEPT !.head_frame = frame,
                                 !.g_declared = frame.length,
                                 !.g_bulk = 0]),
     LAMBDA t : [t EXCEPT !.rx_state = "BULK"])

\* case GS_RX_ESC_Z (lines 963-989), after the byte was stored.
RxEscZ(s) ==
  On([s EXCEPT !.rx_async_left = Dec8(@)], LAMBDA t :
    IF t.rx_async_left # 0 THEN t
    ELSE IF Len(t.rx_async) < 5 THEN Undefined(t, "rx_async stale read")
    ELSE On(<<parseNumber8(SubSeq(t.rx_async, 1, 1), 16),
              parseNumber16(SubSeq(t.rx_async, 2, 5), 10)>>,
            LAMBDA n :
              LET cid == n[1]
                  len == n[2]
              IN  IF cid.ok /\ len.ok
                  THEN AcceptFrame(t, [t.head_frame EXCEPT !.cid = cid.val,
                                                           !.length = len.val,
                                                           !.udp_server = FALSE])
                  ELSE [t EXCEPT !.rx_state = "IDLE",
                                 !.head_frame.cid = IF cid.ok THEN cid.val ELSE @]))

\* case GS_RX_ESC_y_3 (lines 1004-1062), after the byte was stored.
RxEscY3(s) ==
  On([s EXCEPT !.rx_async_left = Dec8(@)], LAMBDA t :
    LET buf == t.rx_async
        sp == ScanFor(buf, 2, CH_SP)
        tab == IF sp = 0 THEN 0 ELSE ScanFor(buf, sp + 1, CH_TAB)
    IN  IF t.rx_async_left # 0 THEN t
        ELSE IF sp = 0 \/ tab = 0 \/ tab + 4 > Len(buf)
        THEN Undefined(t, "rx_async stale read")
        ELSE On(<<parseNumber8(SubSeq(buf, 1, 1), 16),
                  parseIpAddress(SubSeq(buf, 2, sp - 1), SubSeqFrom(buf, 2)),
                  parseNumber16(SubSeq(buf, sp + 1, tab - 1), 10),
                  parseNumber16(SubSeq(buf, tab + 1, tab + 4), 10)>>,
                LAMBDA n :
                  LET cid == n[1]
                      ip == n[2]
                      port == n[3]
                      len == n[4]
                      f1 == IF cid.ok THEN [t.head_frame EXCEPT !.cid = cid.val]
                            ELSE t.head_frame
                      f2 == IF cid.ok THEN [f1 EXCEPT !.ip = ip.ip] ELSE f1
                      f3 == IF cid.ok /\ ip.ok /\ port.ok
                            THEN [f2 EXCEPT !.port = port.val] ELSE f2
                  IN  IF cid.ok /\ ip.ok /\ port.ok /\ len.ok
                      THEN AcceptFrame(t, [f3 EXCEPT !.length = len.val,
                                                     !.udp_server = TRUE])
                      ELSE [t EXCEPT !.rx_state = "IDLE", !.head_frame = f3]))

\* case GS_RX_ESC_A (lines 1064-1086), after the byte was stored.
RxEscA(s) ==
  On([s EXCEPT !.rx_async_left = Dec8(@)], LAMBDA t :
    IF t.rx_async_left # 0 THEN t
    ELSE IF Len(t.rx_async) < 3 THEN Undefined(t, "rx_async stale read")
    ELSE On(<<parseNumber8(SubSeq(t.rx_async, 1, 1), 16),
              parseNumber8(SubSeq(t.rx_async, 2, 3), 10)>>,
            LAMBDA n :
              LET sub == n[1]
                  len == n[2]
              IN  IF sub.ok /\ len.ok
                  THEN [t EXCEPT !.rx_async_subtype = sub.val,
                                 !.rx_async_left = len.val,
                                 !.rx_state = "ASYNC",
                                 !.rx_async = <<>>,
                                 !.g_async_n = len.val,
                                 !.g_async_got = 0,
                                 !.g_async_calls = 0]
                  ELSE [t EXCEPT !.rx_state = "IDLE",
                                 !.rx_async_subtype = IF sub.ok THEN sub.val ELSE @]))

\* case GS_RX_ASYNC (lines 1088-1108), after the byte was stored.
RxAsync(s) ==
  On([s EXCEPT !.rx_async_left = Dec8(@), !.g_async_got = @ + 1], LAMBDA t :
    IF t.rx_async_left # 0 THEN t
    ELSE On(processAsync([t EXCEPT !.rx_state = "IDLE"]), LAMBDA r :
           [r.st EXCEPT !.g_async_calls = @ + 1]))

\* case GS_RX_ESC without the return to GS_RX_IDLE on an unknown escape.
RxEscStay(s, c) ==
  IF c = Ch("Z")
  THEN [s EXCEPT !.rx_state = "ESC_Z", !.rx_async_left = 5, !.rx_async = <<>>]
  ELSE IF c = Ch("A")
  THEN [s EXCEPT !.rx_state = "ESC_A", !.rx_async_left = 3, !.rx_async = <<>>]
  ELSE IF c = Ch("y")
  THEN [s EXCEPT !.rx_state = "ESC_y_1", !.rx_async = <<>>]
  ELSE s

\* case GS_RX_ESC (lines 910-947).
RxEsc(s, c) ==
  IF c = Ch("Z")
  THEN [s EXCEPT !.rx_state = "ESC_Z", !.rx_async_left = 5, !.rx_async = <<>>]
  ELSE IF c = Ch("A")
  THEN [s EXCEPT !.rx_state = "ESC_A", !.rx_async_left = 3, !.rx_async = <<>>]
  ELSE IF c = Ch("y")
  THEN [s EXCEPT !.rx_state = "ESC_y_1", !.rx_async = <<>>]
  ELSE [s EXCEPT !.rx_state = "IDLE"]

\* case GS_RX_BULK (lines 1116-1120).
RxBulk(s, c) ==
  On(bufferIncomingData(s, c), LAMBDA b :
    On([b EXCEPT !.head_frame.length = Dec16(@), !.g_bulk = @ + 1], LAMBDA t :
      IF t.head_frame.length = 0 THEN [t EXCEPT !.rx_state = "IDLE"] ELSE t))

\* bool processIncoming(int c), for c >= 0 (c < 0 returns false at once).
processIncoming(s, c) ==
  CASE s.rx_state = "IDLE" -> IF c = CH_ESC THEN [s EXCEPT !.rx_state = "ESC"] ELSE s
    [] s.rx_state = "ESC" -> RxEsc(s, c)
    [] s.rx_state = "ESC_y_1" ->
         IF c = CH_SP THEN [StoreAsync(s, c) EXCEPT !.rx_state = "ESC_y_2"]
         ELSE StoreAsync(s, c)
    [] s.rx_state = "ESC_y_2" ->
         IF c = CH_TAB
         THEN [StoreAsync(s, c) EXCEPT !.rx_state = "ESC_y_3", !.rx_async_left = 4]
         ELSE StoreAsync(s, c)
    [] s.rx_state = "ESC_y_3" -> RxEscY3(StoreAsync(s, c))
    [] s.rx_state = "ESC_Z" -> RxEscZ(StoreAsync(s, c))
    [] s.rx_state = "ESC_A" -> RxEscA(StoreAsync(s, c))
    [] s.rx_state = "ASYNC" -> RxAsync(StoreAsync(s, c))
    [] s.rx_state = "BULK" -> RxBulk(s, c)


(***************************** data operations ****************************)

\* The while loop of readData(cid, buf, size) that reads from the module
\* directly (lines 271-283).
RECURSIVE readDirect(_, _)
readDirect(s, size) ==
  IF size = 0 THEN [st |-> s, buf |-> <<>>]
  ELSE On(readRaw(s), LAMBDA r :
         IF r.c < 0 THEN [st |-> r.st, buf |-> <<>>]
         ELSE On([r.st EXCEPT !.tail_frame.length = Dec16(@),
                              !.head_frame.length = Dec16(@),
                              !.g_bulk = @ + 1],
                 LAMBDA t :
                   IF t.head_frame.length = 0
                   THEN [st |-> [t EXCEPT !.rx_state = "IDLE"], buf |-> <<r.c>>]
                   ELSE On(readDirect(t, size - 1), LAMBDA q :
                          [st |-> q.st, buf |-> <<r.c>> \o q.buf])))

\* size_t readData(cid_t cid, uint8_t *buf, size_t size): buf is what was
\* written to the caller's buffer, ret the count returned.  idle counts the
\* rounds that copied nothing; the call does not return when they repeat.
RECURSIVE readDataRounds(_, _, _, _)
readDataRounds(s, cid, size, idle) ==
  On(getFrameHeader(s, cid), LAMBDA h :
    On(h.st, LAMBDA t :
      IF ~h.ok THEN [st |-> t, buf |-> <<>>, ret |-> 0]
      ELSE IF idle > RX_DATA_SIZE
      THEN [st |-> Undefined(t, "readData does not return"), buf |-> <<>>, ret |-> 0]
      ELSE IF t.rx_data_tail # t.rx_data_head
      THEN LET avail == IF t.rx_data_head > t.rx_data_tail
                        THEN t.rx_data_head - t.rx_data_tail
                        ELSE (RX_DATA_SIZE - t.rx_data_tail) % RX_DATA_INDEX_RANGE
               inframe == IF avail > t.tail_frame.length THEN t.tail_frame.length ELSE avail
           IN  On(IF inframe > size THEN size ELSE inframe, LAMBDA len :
                 LET data == [i \in 1..len |->
                                t.rx_data[(t.rx_data_tail + i - 1) % RX_DATA_SIZE]]
                     u == [t EXCEPT !.rx_data_tail = (@ + len) % RX_DATA_SIZE,
                                    !.tail_frame.length = @ - len,
                                    !.g_cells = @ - len]
                 IN  IF len # size
                     THEN On(readDataRounds(u, cid, size - len,
                                            IF len = 0 THEN idle + 1 ELSE 0),
                             LAMBDA r :
                               [st |-> r.st, buf |-> data \o r.buf,
                                ret |-> (len + r.ret) % RX_DATA_INDEX_RANGE])
                     ELSE [st |-> u, buf |-> data, ret |-> len])
      ELSE On(readDirect(t, size), LAMBDA d :
             [st |-> d.st, buf |-> d.buf, ret |-> Len(d.buf)])))

readDataBuf(s, cid, size) == readDataRounds(s, cid, size, 0)

\* uint16_t availableData(cid_t cid)
availableData(s, cid) ==
  On(getFrameHeader(s, cid), LAMBDA h :
    IF ~h.ok THEN [st |-> h.st, ret |-> 0]
    ELSE On(IF h.st.rx_data_head = h.st.rx_data_tail
            THEN On(readRaw(h.st), LAMBDA r :
                   IF r.c >= 0 THEN processIncoming(r.st, r.c) ELSE r.st)
            ELSE h.st,
            LAMBDA t :
              LET len == IdxMod(t.rx_data_head - t.rx_data_tail)
              IN  [st |-> t,
                   ret |-> IF len > t.tail_frame.length THEN t.tail_frame.length
                           ELSE len]))

\* int peekData(cid_t cid)
peekData(s, cid) ==
  On(availableData(s, cid), LAMBDA a :
    [st |-> a.st, c |-> IF a.ret > 0 THEN a.st.rx_data[a.st.rx_data_tail] ELSE -1])

\* cid_t firstCidWithData()
firstCidWithData(s) ==
  On(getFrameHeader(s, ANY_CID), LAMBDA h :
    [st |-> h.st, cid |-> IF h.ok THEN h.st.tail_frame.cid ELSE INVALID_CID])

\* void readAndProcessAsync(): tries starts at 1024.
RECURSIVE readAndProcessAsyncLoop(_, _)
readAndProcessAsyncLoop(s, tries) ==
  On(readRaw(s), LAMBDA r :
    IF r.c < 0 THEN r.st
    ELSE On(processIncoming(r.st, r.c), LAMBDA t :
           IF tries = 0 \/ t.rx_state \in {"ESC_Z", "BULK"} THEN t
           ELSE readAndProcessAsyncLoop(t, tries - 1)))

readAndProcessAsync(s) == readAndProcessAsyncLoop(s, 1024)

\* One of the four dispatches of loop(): clear the flag, call the callback.
Dispatch(s, callback, event) ==
  IF callback \in s.callbacks /\ event \in s.events
  THEN [s EXCEPT !.events = @ \ {event}, !.g_fired = Append(@, callback)]
  ELSE s

\* The dispatch of loop() is over: the poll cycle ends and the next begins.
EndCycle(s) ==
  [s EXCEPT !.g_done = s.g_cycle,
            !.g_from = s.g_begin,
            !.g_cycle = <<>>,
            !.g_begin = [associated |-> s.associated, events |-> s.events,
                         ncm_auto_cid |-> s.ncm_auto_cid]]

\* loop() with the dispatch of onAssociate moved before that of onDisassociate.
loopAssociateFirst(s) ==
  IF s.unrecoverableError THEN [s EXCEPT !.g_fired = <<>>]
  ELSE On(readAndProcessAsync(s), LAMBDA a :
       On(Dispatch([a EXCEPT !.g_fired = <<>>], "onNcmDisconnect", "NCM_DISCONNECTED"),
          LAMBDA b :
       On(Dispatch(b, "onAssociate", "ASSOCIATED"), LAMBDA c :
       On(Dispatch(c, "onDisassociate", "DISASSOCIATED"), LAMBDA d :
         EndCycle(Dispatch(d, "onNcmConnect", "NCM_CONNECTED"))))))

\* void loop(); g_fired lists the callbacks this call invoked.
loop(s) ==
  IF s.unrecoverableError THEN [s EXCEPT !.g_fired = <<>>]
  ELSE On(readAndProcessAsync(s), LAMBDA a :
       On(Dispatch([a EXCEPT !.g_fired = <<>>], "onNcmDisconnect", "NCM_DISCONNECTED"),
          LAMBDA b :
       On(Dispatch(b, "onDisassociate", "DISASSOCIATED"), LAMBDA c :
       On(Dispatch(c, "onAssociate", "ASSOCIATED"), LAMBDA d :
         EndCycle(Dispatch(d, "onNcmConnect", "NCM_CONNECTED"))))))


(******************************** write path *******************************)

\* processIncoming(processSpiSpecial(transferSpi(out))): processIncoming
\* returns at once for the -1 of a reserved byte.
SpiExchange(s, out) ==
  On(SpiRound(s, out), LAMBDA r :
    IF r.res < 0 THEN r.st ELSE processIncoming(r.st, r.res))

\* What goes on the wire for the bytes of buf: a reserved byte as ESCAPE and
\* the byte with SPI_ESC_XOR.
RECURSIVE WireOf(_)
WireOf(buf) ==
  IF buf = <<>> THEN <<>>
  ELSE IF Len(buf) = 1
  THEN IF isSpiSpecial(buf[1]) THEN <<SPI_SPECIAL_ESC, Xor8(buf[1], SPI_ESC_XOR)>> ELSE buf
  ELSE WireOf(SubSeq(buf, 1, Len(buf) \div 2))
         \o WireOf(SubSeq(buf, Len(buf) \div 2 + 1, Len(buf)))

\* The while loop of writeRaw()'s SPI branch, with the tries it has left.
\* Under XOFF with a quiet link every remaining try sends one IDLE; without
\* XOFF on a quiet link every byte of buf is sent and an IDLE read for it.
RECURSIVE writeRawSpi(_, _, _)
writeRawSpi(s, buf, tries) ==
  IF buf = <<>> \/ tries = 0 \/ s.unrecoverableError \/ s.ub # "none" THEN s
  ELSE IF s.spi_xoff /\ SpiQuiet(s)
  THEN [s EXCEPT !.g_wire = @ \o [i \in 1..tries |-> SPI_SPECIAL_IDLE],
                 !.g_io = TRUE]
  ELSE IF ~s.spi_xoff /\ SpiQuiet(s)
  THEN [s EXCEPT !.g_wire = @ \o WireOf(buf), !.g_io = TRUE]
  ELSE IF s.spi_xoff
  THEN writeRawSpi(SpiExchange(s, SPI_SPECIAL_IDLE), buf, tries - 1)
  ELSE IF isSpiSpecial(Head(buf))
  THEN writeRawSpi(SpiExchange(SpiExchange(s, SPI_SPECIAL_ESC),
                               Xor8(Head(buf), SPI_ESC_XOR)),
                   Tail(buf), tries)
  ELSE writeRawSpi(SpiExchange(s, Head(buf)), Tail(buf), tries)

\* writeRaw with one more try than WRITE_TRIES.
writeRawOverBudget(s, buf) ==
  IF s.transport = "serial"
  THEN IF s.unrecoverableError THEN s
       ELSE [s EXCEPT !.g_wire = @ \o buf, !.g_io = TRUE]
  ELSE IF s.transport = "spi" THEN writeRawSpi(s, buf, WRITE_TRIES + 1)
  ELSE s

\* void writeRaw(buf, len)
writeRaw(s, buf) ==
  IF s.transport = "serial"
  THEN IF s.unrecoverableError THEN s
       ELSE [s EXCEPT !.g_wire = @ \o buf, !.g_io = TRUE]
  ELSE IF s.transport = "spi" THEN writeRawSpi(s, buf, WRITE_TRIES)
  ELSE s

\* g_acks lists the <ESC>O and <ESC>F that readDataResponse() received, each
\* with the number of bytes written to the wire before it.
NoteAck(s, ok) == [s EXCEPT !.g_acks = Append(@, [at |-> Len(s.g_wire), ok |-> ok])]

\* One round of the loop of readDataResponse(); expired and done as for
\* readResponseRound.
readDataResponseRound(s, expired) ==
  On(readRaw(s), LAMBDA r :
    IF r.st.unrecoverableError THEN [st |-> r.st, done |-> TRUE, ok |-> FALSE]
    ELSE IF r.c < 0
    THEN IF expired
         THEN [st |-> [r.st EXCEPT !.unrecoverableError = TRUE], done |-> TRUE,
               ok |-> FALSE]
         ELSE [st |-> r.st, done |-> FALSE, ok |-> FALSE]
    ELSE IF r.st.rx_state = "ESC" /\ r.c = Ch("O")
    THEN [st |-> NoteAck([r.st EXCEPT !.rx_state = "IDLE"], TRUE), done |-> TRUE, ok |-> TRUE]
    ELSE IF r.st.rx_state = "ESC" /\ r.c = Ch("F")
    THEN [st |-> NoteAck([r.st EXCEPT !.rx_state = "IDLE"], FALSE), done |-> TRUE,
          ok |-> FALSE]
    ELSE [st |-> processIncoming(r.st, r.c), done |-> FALSE, ok |-> FALSE])

\* bool readDataResponse(), against a module that sends nothing more than it
\* has sent: the read that finds nothing is repeated until the deadline.
RECURSIVE readDataResponse(_)
readDataResponse(s) ==
  On(readDataResponseRound(s, TRUE), LAMBDA x :
    IF x.done \/ x.st.ub # "none" THEN [st |-> x.st, ok |-> x.ok]
    ELSE readDataResponse(x.st))

\* printf's %x and %04d.
RECURSIVE FormatHex(_)
FormatHex(n) ==
  (IF n < 16 THEN <<>> ELSE FormatHex(n \div 16))
    \o <<IF n % 16 < 10 THEN Ch("0") + (n % 16) ELSE Ch("a") + (n % 16) - 10>>
RECURSIVE FormatDec(_)
FormatDec(n) ==
  (IF n < 10 THEN <<>> ELSE FormatDec(n \div 10)) \o <<Ch("0") + (n % 10)>>
\* printf's %4d: padded with spaces.
FormatDec4(n) ==
  [i \in 1..(IF Len(FormatDec(n)) < 4 THEN 4 - Len(FormatDec(n)) ELSE 0) |-> CH_SP]
    \o FormatDec(n)

FormatDec04(n) ==
  [i \in 1..(IF Len(FormatDec(n)) < 4 THEN 4 - Len(FormatDec(n)) ELSE 0) |-> Ch("0")]
    \o FormatDec(n)

MAX_BULK == 1400
HEADER_SIZE == 8
COMMAND_SIZE == 128

\* snprintf(header, sizeof(header), "\x1bZ%x%04d", cid, len): what fits before
\* the trailing 0.
BulkHeader(cid, len) ==
  On(<<CH_ESC, Ch("Z")>> \o FormatHex(cid) \o FormatDec04(len), LAMBDA h :
    IF Len(h) > HEADER_SIZE - 1 THEN SubSeq(h, 1, HEADER_SIZE - 1) ELSE h)

\* writeData(cid, buf, len) up to the payload: the header in two parts, with
\* the module's <ESC>O or <ESC>F in between.
writeDataHeader(s, cid, len) ==
  On(BulkHeader(cid, len), LAMBDA header :
    On(readDataResponse(writeRaw(s, SubSeq(header, 1, 3))), LAMBDA d :
      IF ~d.ok THEN [st |-> d.st, ok |-> FALSE]
      ELSE [st |-> writeRaw(d.st, SubSeq(header, 4, HEADER_SIZE - 1)), ok |-> TRUE]))

\* The two writes of writeData(): writeRaw(header, 3), and after <ESC>O
\* writeRaw(header + 3, 4) and writeRaw(buf, len).
writeDataPrefix(s, cid, len) == writeRaw(s, SubSeq(BulkHeader(cid, len), 1, 3))

writeDataRest(s, cid, buf) ==
  writeRaw(writeRaw(s, SubSeq(BulkHeader(cid, Len(buf)), 4, HEADER_SIZE - 1)), buf)

\* bool writeData(cid, buf, len)
RECURSIVE writeData(_, _, _)
writeData(s, cid, buf) ==
  IF cid > MAX_CID THEN [st |-> s, ok |-> FALSE]
  ELSE IF Len(buf) > MAX_BULK
  THEN On(writeData(s, cid, SubSeq(buf, 1, MAX_BULK)), LAMBDA a :
         IF ~a.ok THEN a ELSE writeData(a.st, cid, SubSeqFrom(buf, MAX_BULK + 1)))
  ELSE On(writeDataHeader(s, cid, Len(buf)), LAMBDA h :
         IF ~h.ok THEN h ELSE [st |-> writeRaw(h.st, buf), ok |-> TRUE])

\* void writeCommand(fmt, ...), for the text the format gives: vsnprintf
\* keeps COMMAND_SIZE - 3 characters and a 0 of a longer text.
writeCommand(s, text) ==
  writeRaw(s, (IF Len(text) > COMMAND_SIZE - 3
               THEN Append(SubSeq(text, 1, COMMAND_SIZE - 3), 0)
               ELSE text) \o <<CH_CR, CH_LF>>)


\* void end()
end(s) ==
  [s EXCEPT !.transport = "none",
            !.connections = [c \in 0..MAX_CID |-> EmptyConnection],
            !.associated = FALSE,
            !.unrecoverableError = FALSE]


(************************ the module and the sketch ************************)

\* Bounds of the data-path specification.
MaxFrames == 3
MaxLen == 2
FrameCids == {1, 2}
FrameLens == 1..MaxLen
ReadSizes == {2}

HexDigit(n) == IF n < 10 THEN 48 + n ELSE 97 + (n - 10)

Dec4(n) == <<48 + ((n \div 1000) % 10), 48 + ((n \div 100) % 10),
             48 + ((n \div 10) % 10), 48 + (n % 10)>>

\* The k-th payload byte of the f-th frame the module sent.
PayloadByte(f, k) == (MaxLen + 2) * (f - 1) + k

\* <ESC>Z<cid><4 digit length><payload> as the module puts it on the wire.
FrameBytes(f, cid, len) ==
  <<CH_ESC, Ch("Z"), HexDigit(cid)>> \o Dec4(len) \o [k \in 1..len |-> PayloadByte(f, k)]

\* The last operation: its name, its argument bytes, rx_state before it, the
\* response it returned and whether it wrote to the error stream.
NoOp == [name |-> "none", arg |-> <<>>, pre |-> "", res |-> "", flag |-> FALSE]

RECURSIVE Tagged(_, _)
Tagged(cid, buf) ==
  IF buf = <<>> THEN <<>> ELSE <<(<<cid, Head(buf)>>)>> \o Tagged(cid, Tail(buf))

\* The module sends one bulk frame once the previous one has left the wire.
ModuleSendFrame(cid, len) ==
  /\ gs.ub = "none"
  /\ gs.serial = <<>>
  /\ Len(gs.g_frames) < MaxFrames
  /\ gs' = [gs EXCEPT !.serial = FrameBytes(Len(gs.g_frames) + 1, cid, len),
                      !.g_items = @ + 1,
                      !.g_frames = Append(@, [cid |-> cid, len |-> len])]
  /\ op' = NoOp

Loop ==
  /\ gs.ub = "none"
  /\ gs' = loop(gs)
  /\ op' = NoOp

ReadData(cid) ==
  /\ gs.ub = "none"
  /\ \E r \in {readData(gs, cid)} :
       gs' = IF r.c >= 0 THEN [r.st EXCEPT !.g_out = Append(@, <<cid, r.c>>)] ELSE r.st
  /\ op' = NoOp

ReadDataAny ==
  /\ gs.ub = "none"
  /\ \E r \in {readDataAny(gs)} :
       gs' = IF r.c >= 0 THEN [r.st EXCEPT !.g_out = Append(@, <<r.cid, r.c>>)] ELSE r.st
  /\ op' = NoOp

ReadDataBuf(cid, size) ==
  /\ gs.ub = "none"
  /\ \E r \in {readDataBuf(gs, cid, size)} :
       gs' = [r.st EXCEPT !.g_out = @ \o Tagged(cid, SubSeq(r.buf, 1, r.ret))]
  /\ op' = NoOp

AvailableData(cid) ==
  /\ gs.ub = "none"
  /\ gs' = availableData(gs, cid).st
  /\ op' = NoOp

PeekData(cid) ==
  /\ gs.ub = "none"
  /\ gs' = peekData(gs, cid).st
  /\ op' = NoOp

FirstCidWithData ==
  /\ gs.ub = "none"
  /\ gs' = firstCidWithData(gs).st
  /\ op' = NoOp

Init ==
  /\ gs = Engine(0)
  /\ op = NoOp

Next ==
  \/ \E cid \in FrameCids, len \in FrameLens : ModuleSendFrame(cid, len)
  \/ Loop
  \/ \E cid \in FrameCids : ReadData(cid)
  \/ ReadDataAny
  \/ \E cid \in FrameCids, size \in ReadSizes : ReadDataBuf(cid, size)
  \/ \E cid \in FrameCids : AvailableData(cid)
  \/ \E cid \in FrameCids : PeekData(cid)
  \/ FirstCidWithData

Spec == Init /\ [][Next]_vars


(*********************** escape sequences and noise ************************)

\* Bounds of the escape-sequence specification.
MaxItems == 3

Bytes(chars) == [i \in 1..Len(chars) |-> Ch(chars[i])]

\* <ESC>A<subtype><2 digit length><payload>
AsyncBytes(subtype, n, payload) ==
  <<CH_ESC, Ch("A"), HexDigit(subtype), 48 + ((n \div 10) % 10), 48 + (n % 10)>> \o payload

\* Asynchronous messages of the module: CONNECT 1, NWCONN-SUCCESS,
\* Disassociation Event, and a message that announces no payload.
WireAsync ==
  { AsyncBytes(1, 3, <<Ch("1"), CH_SP, Ch("1")>>),
    AsyncBytes(12, 1, <<Ch("c")>>),
    AsyncBytes(3, 1, <<Ch("3")>>),
    AsyncBytes(3, 0, <<>>) }

\* Sequences that are not valid: an unknown escape, headers with a field
\* that does not parse, and a line ending outside any frame.
WireNoise ==
  { <<CH_ESC, Ch("#")>>,
    <<CH_ESC>> \o Bytes(<<"Z", "#", "0", "0", "0", "1">>),
    <<CH_ESC>> \o Bytes(<<"Z", "1", "0", "0", "#", "1">>),
    <<CH_ESC>> \o Bytes(<<"A", "#", "0", "1">>),
    <<CH_ESC>> \o Bytes(<<"A", "3", "#", "1">>),
    <<CH_ESC>> \o Bytes(<<"y", "1", "#">>) \o <<CH_SP, Ch("5"), CH_TAB>>
               \o Bytes(<<"0", "0", "0", "1">>),
    <<CH_ESC>> \o Bytes(<<"y", "1", "1">>) \o <<CH_DOT, Ch("2"), CH_SP, Ch("#"), CH_TAB>>
               \o Bytes(<<"0", "0", "0", "1">>),
    <<CH_ESC>> \o Bytes(<<"y", "1", "1">>) \o <<CH_DOT, Ch("2"), CH_SP, Ch("5"), CH_TAB>>
               \o Bytes(<<"0", "#", "0", "1">>),
    <<CH_CR, CH_LF>> }

\* The module sends something that is not a bulk frame.
ModuleSendBytes(bytes, max) ==
  /\ gs.ub = "none"
  /\ gs.serial = <<>>
  /\ gs.g_items < max
  /\ gs' = [gs EXCEPT !.serial = bytes, !.g_items = @ + 1]
  /\ op' = NoOp

\* One call of processIncoming(readRaw()) with a byte pending.
ProcessIncoming ==
  /\ gs.ub = "none"
  /\ gs.serial # <<>>
  /\ ~gs.unrecoverableError
  /\ \E r \in {readRaw(gs)} :
       /\ gs' = processIncoming(r.st, r.c)
       /\ op' = [NoOp EXCEPT !.name = "processIncoming", !.arg = <<r.c>>,
                             !.pre = gs.rx_state]

NextRx ==
  \/ \E len \in 0..1 : gs.g_items < MaxItems /\ ModuleSendFrame(1, len)
  \/ \E bytes \in WireAsync \cup WireNoise : ModuleSendBytes(bytes, MaxItems)
  \/ ProcessIncoming

SpecRx == Init /\ [][NextRx]_vars


(***************************** response lines *****************************)

\* Size of the line buffer of readResponse(cid_t*).
MAX_RESPONSE_SIZE == 8

NoArgumentCodes ==
  {"SUCCESS", "FAILURE", "EINVAL", "ENOCID", "EBADCID", "ENOTSUP", "LINK_LOST", "ENOIP"}

\* The switch of processResponseLine (lines 1304-1376) on a numeric code
\* and its arguments; used says that this->error was dereferenced.
ResponseSwitch(code, args, has_connect_cid) ==
  LET name == GSResponseOf(code)
      arg_len == Len(args)
      unknown == [code |-> "UNKNOWN", cid |-> INVALID_CID, used |-> FALSE]
  IN  IF name \in NoArgumentCodes
      THEN IF arg_len # 0 THEN unknown ELSE [unknown EXCEPT !.code = name]
      ELSE IF name = "SOCK_FAIL"
      THEN IF arg_len # 2 THEN unknown ELSE [unknown EXCEPT !.code = name]
      ELSE IF name = "CON_SUCCESS"
      THEN IF arg_len # 2 \/ ~has_connect_cid THEN unknown
           ELSE LET n == parseNumber8(<<args[2]>>, 16)
                IN  IF ~n.ok THEN unknown
                    ELSE [unknown EXCEPT !.code = name, !.cid = n.val]
      ELSE IF name # "ECIDCLOSE" /\ arg_len > 0 THEN unknown
      ELSE IF arg_len > 2 THEN unknown
      ELSE [unknown EXCEPT !.used = TRUE]

\* GSResponse processResponseLine(const uint8_t* buf, uint8_t len, cid_t *connect_cid)
processResponseLine(buf, has_connect_cid) ==
  LET len == Len(buf)
      unknown == [code |-> "UNKNOWN", cid |-> INVALID_CID, used |-> FALSE]
  IN  IF len >= 2 /\ buf[1] = Ch("1") /\ buf[2] >= Ch("0") /\ buf[2] <= Ch("8")
      THEN IF len > 2 /\ buf[3] # CH_SP THEN unknown
           ELSE ResponseSwitch(10 + (buf[2] - Ch("0")), SubSeqFrom(buf, 3), has_connect_cid)
      ELSE IF len >= 1 /\ buf[1] >= Ch("0") /\ buf[1] <= Ch("9")
      THEN IF len > 1 /\ buf[2] # CH_SP THEN unknown
           ELSE ResponseSwitch(buf[1] - Ch("0"), SubSeqFrom(buf, 2), has_connect_cid)
      ELSE IF len = 2 /\ buf[1] = Ch("O") /\ buf[2] = Ch("K")
      THEN ResponseSwitch(GSResponseValue("SUCCESS"), <<>>, has_connect_cid)
      ELSE unknown

\* One round of the loop of readResponseInternal as readResponse(cid_t*) runs
\* it: no data kept, no callback, a buffer of MAX_RESPONSE_SIZE bytes (lines
\* 478-587). expired tells whether millis() - start > RESPONSE_TIMEOUT when the
\* round looks at the clock; done tells that the function returned.
readResponseRound(s, line, skip_line, has_connect_cid, expired) ==
  IF s.unrecoverableError
  THEN [st |-> s, line |-> line, skip_line |-> skip_line, done |-> TRUE,
        res |-> "UNRECOVERABLE_ERROR"]
  ELSE On(readRaw(s), LAMBDA r :
    IF r.c < 0
    THEN IF expired
         THEN [st |-> [r.st EXCEPT !.unrecoverableError = TRUE], line |-> line,
               skip_line |-> skip_line, done |-> TRUE, res |-> "UNRECOVERABLE_ERROR"]
         ELSE [st |-> r.st, line |-> line, skip_line |-> skip_line, done |-> FALSE,
               res |-> ""]
    ELSE IF r.st.rx_state # "IDLE" \/ r.c = CH_ESC
    THEN [st |-> processIncoming(r.st, r.c), line |-> line, skip_line |-> skip_line,
          done |-> FALSE, res |-> ""]
    ELSE IF r.c = CH_CR \/ r.c = CH_LF
    THEN IF line = <<>>
         THEN [st |-> r.st, line |-> line, skip_line |-> skip_line, done |-> FALSE,
               res |-> ""]
         ELSE IF skip_line
         THEN [st |-> r.st, line |-> <<>>, skip_line |-> FALSE, done |-> FALSE,
               res |-> ""]
         ELSE On(processResponseLine(line, has_connect_cid), LAMBDA p :
                IF p.used /\ ~r.st.error
                THEN [st |-> Undefined(r.st, "null error stream"), line |-> line,
                      skip_line |-> FALSE, done |-> TRUE, res |-> "UNKNOWN"]
                ELSE On(IF p.code = "LINK_LOST"
                        THEN processDisassociation(NoteEvent(r.st, <<"disassociate">>))
                        ELSE r.st,
                        LAMBDA v :
                          IF p.code \notin {"UNKNOWN", "CON_SUCCESS"}
                          THEN [st |-> v, line |-> <<>>, skip_line |-> FALSE,
                                done |-> TRUE, res |-> p.code]
                          ELSE [st |-> v, line |-> <<>>, skip_line |-> FALSE,
                                done |-> FALSE, res |-> ""]))
    ELSE IF Len(line) < MAX_RESPONSE_SIZE
    THEN [st |-> r.st, line |-> Append(line, r.c), skip_line |-> skip_line,
          done |-> FALSE, res |-> ""]
    ELSE [st |-> r.st, line |-> line, skip_line |-> TRUE, done |-> FALSE, res |-> ""])

\* The loop run to its end against a module that sends nothing more than it
\* has sent: the read that finds nothing is repeated until the deadline.
RECURSIVE readResponseLoop(_, _, _, _)
readResponseLoop(s, line, skip_line, has_connect_cid) ==
  On(readResponseRound(s, line, skip_line, has_connect_cid, TRUE), LAMBDA x :
    IF x.done THEN [st |-> x.st, res |-> x.res]
    ELSE readResponseLoop(x.st, x.line, x.skip_line, has_connect_cid))

\* GSResponse readResponse(cid_t *connect_cid)
readResponse(s, has_connect_cid) == readResponseLoop(s, <<>>, FALSE, has_connect_cid)

\* The locals of readResponseInternal (lines 472-476) over a destination of
\* len bytes. Cell len of buf is the byte of memory that follows the
\* destination; overrun tells that the function wrote it. passed lists the
\* lines handed to the callback.
ResponseLocals(len) ==
  [buf |-> [i \in 0..len |-> 0], read |-> 0, line_start |-> 0,
   dropped_data |-> FALSE, skip_line |-> FALSE, connect_cid |-> INVALID_CID,
   overrun |-> FALSE, passed |-> <<>>]

\* buf[from .. from + n - 1]
Cells(buf, from, n) == [i \in 1..n |-> buf[from + i - 1]]

\* memmove(&buf[line_start - 1], &buf[line_start], read - line_start);
\* line_start--; buf[read] = c;   (lines 572-574)
EvictAndStore(x, c) ==
  [x EXCEPT !.buf = [i \in DOMAIN x.buf |->
                       IF i = x.read THEN c
                       ELSE IF i >= x.line_start - 1 /\ i < x.read - 1 THEN x.buf[i + 1]
                       ELSE x.buf[i]],
            !.line_start = @ - 1,
            !.overrun = TRUE,
            !.dropped_data = TRUE]

\* The branch of a byte of a line (lines 550-586); m.len is *len.
StoreLineByte(x, m, c) ==
  IF x.read < m.len
  THEN [x EXCEPT !.buf[x.read] = c, !.read = @ + 1]
  ELSE IF x.read - x.line_start >= MAX_RESPONSE_SIZE
  THEN [x EXCEPT !.skip_line = TRUE, !.dropped_data = TRUE]
  ELSE IF x.line_start > 0
  THEN EvictAndStore(x, c)
  ELSE [x EXCEPT !.dropped_data = TRUE]

\* The branch of the end of a non-empty line that is not skipped (lines
\* 521-548), after processResponseLine returned p. The length it was given is
\* a uint8_t.
EndLine(x, m, p) ==
  On(IF p.code = "CON_SUCCESS" THEN [x EXCEPT !.connect_cid = p.cid] ELSE x, LAMBDA y :
    IF m.keep_data /\ ~m.callback /\ ~y.dropped_data /\ p.code = "UNKNOWN"
    THEN On(IF y.read < m.len THEN [y EXCEPT !.buf[y.read] = CH_CR, !.read = @ + 1] ELSE y,
            LAMBDA z :
         On(IF z.read < m.len THEN [z EXCEPT !.buf[z.read] = CH_LF, !.read = @ + 1] ELSE z,
            LAMBDA w : [w EXCEPT !.line_start = w.read]))
    ELSE [y EXCEPT !.passed = IF m.keep_data /\ m.callback /\ p.code = "UNKNOWN"
                              THEN Append(@, Cells(y.buf, y.line_start, y.read - y.line_start))
                              ELSE @,
                   !.read = y.line_start])

\* One round of the loop of readResponseInternal (lines 478-587) in the mode
\* m = [len, keep_data, callback, has_connect_cid]. expired tells whether
\* millis() - start > RESPONSE_TIMEOUT when the round looks at the clock;
\* done tells that the function returned.
readResponseInternalRound(s, x, m, expired) ==
  IF s.unrecoverableError
  THEN [st |-> s, x |-> x, done |-> TRUE, res |-> "UNRECOVERABLE_ERROR"]
  ELSE On(readRaw(s), LAMBDA r :
    IF r.c < 0
    THEN IF expired
         THEN [st |-> [r.st EXCEPT !.unrecoverableError = TRUE], x |-> x, done |-> TRUE,
               res |-> "UNRECOVERABLE_ERROR"]
         ELSE [st |-> r.st, x |-> x, done |-> FALSE, res |-> ""]
    ELSE IF r.st.rx_state # "IDLE" \/ r.c = CH_ESC
    THEN [st |-> processIncoming(r.st, r.c), x |-> x, done |-> FALSE, res |-> ""]
    ELSE IF r.c = CH_CR \/ r.c = CH_LF
    THEN IF x.read - x.line_start = 0
         THEN [st |-> r.st, x |-> x, done |-> FALSE, res |-> ""]
         ELSE IF x.skip_line
         THEN [st |-> r.st, x |-> [x EXCEPT !.skip_line = FALSE, !.read = x.line_start],
               done |-> FALSE, res |-> ""]
         ELSE On(processResponseLine(
                   Cells(x.buf, x.line_start, (x.read - x.line_start) % UINT8_RANGE),
                   m.has_connect_cid),
                 LAMBDA p :
                IF p.used /\ ~r.st.error
                THEN [st |-> Undefined(r.st, "null error stream"), x |-> x,
                      done |-> TRUE, res |-> "UNKNOWN"]
                ELSE On(IF p.code = "LINK_LOST"
                        THEN processDisassociation(NoteEvent(r.st, <<"disassociate">>))
                        ELSE r.st,
                        LAMBDA v :
                     On(EndLine(x, m, p), LAMBDA y :
                          IF p.code \notin {"UNKNOWN", "CON_SUCCESS"}
                          THEN [st |-> v, x |-> y, done |-> TRUE, res |-> p.code]
                          ELSE [st |-> v, x |-> y, done |-> FALSE, res |-> ""])))
    ELSE [st |-> r.st, x |-> StoreLineByte(x, m, r.c), done |-> FALSE, res |-> ""])

\* The loop run to its end against a module that sends nothing more than it
\* has sent. len is *len when the function returns: read at a terminal line,
\* untouched otherwise (line 545).
RECURSIVE readResponseInternalLoop(_, _, _)
readResponseInternalLoop(s, x, m) ==
  On(readResponseInternalRound(s, x, m, TRUE), LAMBDA o :
    IF o.done
    THEN [st |-> o.st, res |-> o.res, x |-> o.x,
          len |-> IF o.res \in {"UNRECOVERABLE_ERROR", "UNKNOWN"} THEN m.len ELSE o.x.read]
    ELSE readResponseInternalLoop(o.st, o.x, m))

\* GSResponse readResponse(uint8_t *buf, uint16_t* len, cid_t *connect_cid)
readResponseData(s, len, has_connect_cid) ==
  readResponseInternalLoop(s, ResponseLocals(len),
    [len |-> len, keep_data |-> TRUE, callback |-> FALSE,
     has_connect_cid |-> has_connect_cid])

\* sizeof(buf) of readResponse(line_callback_t, void*, cid_t*).
MAX_DATA_LINE_SIZE == 10

\* GSResponse readResponse(line_callback_t callback, void *data, cid_t *connect_cid)
readResponseCallback(s, has_connect_cid) ==
  readResponseInternalLoop(s, ResponseLocals(MAX_DATA_LINE_SIZE),
    [len |-> MAX_DATA_LINE_SIZE, keep_data |-> TRUE, callback |-> TRUE,
     has_connect_cid |-> has_connect_cid])

\* GSResponse readResponse(cid_t *connect_cid), by the general loop.
readResponseDiscard(s, has_connect_cid) ==
  readResponseInternalLoop(s, ResponseLocals(MAX_RESPONSE_SIZE),
    [len |-> MAX_RESPONSE_SIZE, keep_data |-> FALSE, callback |-> FALSE,
     has_connect_cid |-> has_connect_cid])


\* Bounds of the response-line specification: lines of at most MaxLineLen
\* characters of LineAlphabet, and the lines the examples name.
MaxLineLen == 3

LineAlphabet ==
  {Ch("0"), Ch("1"), Ch("3"), Ch("7"), Ch("8"), Ch("9"), Ch("O"), Ch("K"), Ch("f"), CH_SP}

RECURSIVE LinesUpTo(_)
LinesUpTo(n) ==
  IF n = 0 THEN {<<>>}
  ELSE LET shorter == LinesUpTo(n - 1)
       IN  shorter \cup {Append(l, c) : l \in shorter, c \in LineAlphabet}

Lines ==
  LinesUpTo(MaxLineLen)
    \cup {<<Ch("0"), CH_SP, Ch("f"), Ch("o"), Ch("o")>>, Bytes(<<"2", "1", "7">>)}

\* The application registered an error stream, or none; a line is received
\* while a connect reply is expected (connect_cid given) or not (NULL).
InitLine ==
  /\ gs \in {[Engine(0) EXCEPT !.error = e] : e \in BOOLEAN}
  /\ op \in {[NoOp EXCEPT !.name = "line", !.arg = line, !.pre = expect] :
               line \in Lines, expect \in {"connect_cid", "NULL"}}

\* The call of processResponseLine on the line. Writing to an error stream
\* that is not there is undefined: the call may return what it would have
\* returned, or not return.
ProcessResponseLine ==
  /\ gs.ub = "none"
  /\ op.name = "line"
  /\ \E p \in {processResponseLine(op.arg, op.pre = "connect_cid")} :
       /\ gs' = IF p.used /\ ~gs.error THEN Undefined(gs, "null error stream") ELSE gs
       /\ \E res \in IF p.used /\ ~gs.error THEN {p.code, "UNDEFINED"} ELSE {p.code} :
            op' = [op EXCEPT !.name = "processResponseLine", !.res = res,
                             !.flag = p.used]

NextLine == ProcessResponseLine

SpecLine == InitLine /\ [][NextLine]_vars

(************************ association and connections **********************)

\* Bound of the connection specification.
MaxConnItems == 4

AllCallbacks == {"onNcmDisconnect", "onDisassociate", "onAssociate", "onNcmConnect"}

AsyncConnect(cid) == AsyncBytes(1, 3, <<Ch("1"), CH_SP, HexDigit(cid)>>)
AsyncAssociated == AsyncBytes(12, 1, <<Ch("c")>>)
AsyncDisassociated == AsyncBytes(3, 1, <<Ch("3")>>)
AsyncIpFailure == AsyncBytes(8, 1, <<Ch("8")>>)
AsyncClose(cid) == AsyncBytes(2, 3, <<Ch("2"), CH_SP, HexDigit(cid)>>)
ReplyLinkLost == <<Ch("9"), CH_CR, CH_LF>>
ReplyOk == <<Ch("0"), CH_CR, CH_LF>>

WireConn ==
  {AsyncConnect(1), AsyncConnect(3), AsyncAssociated, AsyncDisassociated,
   AsyncIpFailure, AsyncClose(1), ReplyLinkLost, ReplyOk}

\* The sketch registered all event callbacks, or none.
InitConn ==
  /\ gs \in {[Engine(0) EXCEPT !.callbacks = cb] : cb \in {{}, AllCallbacks}}
  /\ op = NoOp

\* The sketch waits for the reply to a command with readResponse(NULL).
ReadResponse ==
  /\ gs.ub = "none"
  /\ \E r \in {readResponse(gs, FALSE)} :
       /\ gs' = r.st
       /\ op' = [NoOp EXCEPT !.name = "readResponse", !.pre = gs.rx_state, !.res = r.res]

NextConn ==
  \/ \E bytes \in WireConn : ModuleSendBytes(bytes, MaxConnItems)
  \/ ProcessIncoming
  \/ Loop
  \/ ReadResponse

SpecConn == InitConn /\ [][NextConn]_vars

(******************************* the SPI link *******************************)

MaxWire == 2
MaxWrite == 2
WireAlphabet ==
  {SPI_SPECIAL_ALL_ONE, SPI_SPECIAL_ESC, SPI_SPECIAL_XOFF, SPI_SPECIAL_XON, Ch("A")}
WriteAlphabet == {SPI_SPECIAL_ALL_ONE, SPI_SPECIAL_ESC, Ch("A"), 223}
WriteBuffers == UNION {[1..n -> WriteAlphabet] : n \in 1..MaxWrite}

\* The state after begin(ss, INVALID_PIN): the engine polls the SPI link.
InitSpi ==
  /\ gs = [Engine(0) EXCEPT !.transport = "spi"]
  /\ op = NoOp

\* An operation starts: the record of its transfers is empty.
StartOp(s) ==
  [s EXCEPT !.g_wire = <<>>, !.g_io = FALSE, !.g_logical = <<>>, !.g_held = "none",
            !.g_acks = <<>>]

\* The module has one more byte ready on the wire.
ModuleSendWire ==
  /\ gs.ub = "none"
  /\ gs.transport = "spi"
  /\ Len(gs.serial) < MaxWire
  /\ \E c \in WireAlphabet : gs' = [gs EXCEPT !.serial = Append(@, c)]
  /\ op' = NoOp

\* One call of processIncoming(readRaw()), a full poll or a single try.
ReadRaw ==
  /\ gs.ub = "none"
  /\ \E full \in BOOLEAN :
       \E r \in {readRaw([StartOp(gs) EXCEPT !.full_poll = full])} :
         /\ gs' = (IF r.c < 0 THEN r.st ELSE processIncoming(r.st, r.c))
         /\ op' = [NoOp EXCEPT !.name = "readRaw", !.arg = <<r.c>>,
                               !.flag = gs.unrecoverableError]

WriteRaw ==
  /\ gs.ub = "none"
  /\ gs.transport = "spi"
  /\ \E buf \in WriteBuffers :
       /\ gs' = writeRaw(StartOp(gs), buf)
       /\ op' = [NoOp EXCEPT !.name = "writeRaw", !.arg = buf,
                             !.flag = gs.unrecoverableError]

End ==
  /\ gs.ub = "none"
  /\ gs.transport # "none"
  /\ gs' = end(gs)
  /\ op' = [NoOp EXCEPT !.name = "end", !.flag = gs.unrecoverableError]

NextSpi == ModuleSendWire \/ ReadRaw \/ WriteRaw \/ End

SpecSpi == InitSpi /\ [][NextSpi]_vars


(************************* escaping on the SPI link *************************)

\* The reserved bytes a module sends ahead of an escaped byte.
EscapePreludes == {SPI_SPECIAL_XOFF, SPI_SPECIAL_XON, SPI_SPECIAL_ALL_ONE}

\* The SPI engine, with a byte b in 0..255 drawn for the operations below.
InitEscape ==
  /\ gs = [Engine(0) EXCEPT !.transport = "spi"]
  /\ \E b \in 0..(UINT8_RANGE - 1) : op = [NoOp EXCEPT !.arg = <<b>>]

\* writeRaw(&b, 1) on a link the module keeps idle.
EscapeWrite ==
  /\ op.name = "none"
  /\ gs' = writeRaw(StartOp(gs), op.arg)
  /\ op' = [op EXCEPT !.name = "writeRaw"]

\* The bytes writeRaw put on the wire come back as the module's bytes.
EscapeLoopback ==
  /\ op.name = "writeRaw"
  /\ gs' = [StartOp(gs) EXCEPT !.serial = gs.g_wire]
  /\ op' = [op EXCEPT !.name = "wire", !.pre = "loopback"]

\* The module sends a reserved byte, then ESCAPE, then b.
EscapeModule ==
  /\ op.name = "none"
  /\ \E c \in EscapePreludes :
       gs' = [StartOp(gs) EXCEPT !.serial = <<c, SPI_SPECIAL_ESC>> \o op.arg]
  /\ op' = [op EXCEPT !.name = "wire", !.pre = "module"]

\* readRaw() with a single try, while the module has bytes.
EscapeRead ==
  /\ op.name \in {"wire", "readRaw"}
  /\ gs.serial # <<>>
  /\ ~gs.unrecoverableError
  /\ \E r \in {readRaw([gs EXCEPT !.full_poll = FALSE])} :
       /\ gs' = r.st
       /\ op' = [op EXCEPT !.name = "readRaw", !.res = IF r.c < 0 THEN "-1" ELSE "byte"]

NextEscape == EscapeWrite \/ EscapeLoopback \/ EscapeModule \/ EscapeRead

SpecEscape == InitEscape /\ [][NextEscape]_vars


(***************************** bulk frame headers ***************************)

\* The module's answers to the first part of a bulk header.
DataReplies == {<<CH_ESC, Ch("O")>>, <<CH_ESC, Ch("F")>>}

\* processIncoming() over a sequence of bytes.
RECURSIVE FeedAll(_, _)
FeedAll(s, bytes) ==
  IF bytes = <<>> THEN s ELSE FeedAll(processIncoming(s, Head(bytes)), Tail(bytes))

\* A CID and a length are drawn for writeData.
InitHeader ==
  /\ gs = Engine(0)
  /\ \E cid \in 0..MAX_CID, len \in 1..MAX_BULK : op = [NoOp EXCEPT !.arg = <<cid, len>>]

\* writeData(cid, buf, len) up to the payload; the module has its answer ready.
HeaderWrite ==
  /\ op.name = "none"
  /\ \E reply \in DataReplies :
       \E r \in {writeDataHeader([StartOp(gs) EXCEPT !.serial = reply],
                                 op.arg[1], op.arg[2])} :
         /\ gs' = r.st
         /\ op' = [op EXCEPT !.name = "writeData", !.flag = r.ok]

\* An engine in GS_RX_IDLE receives the bytes that were written.
HeaderReceive ==
  /\ op.name = "writeData"
  /\ gs' = [FeedAll(Engine(0), gs.g_wire) EXCEPT !.g_wire = gs.g_wire]
  /\ op' = [op EXCEPT !.name = "processIncoming"]

NextHeader == HeaderWrite \/ HeaderReceive

SpecHeader == InitHeader /\ [][NextHeader]_vars


(************************** waiting for the module **************************)

\* The deadline of readResponse and readDataResponse, in ticks of millis();
\* elapsed is millis() - start of the running call and stops one tick past it.
RESPONSE_TIMEOUT == 2

StreamAlphabet == {CH_ESC, Ch("O"), Ch("0"), CH_CR}

InitWait ==
  /\ gs = Engine(0)
  /\ op = NoOp

\* The sketch calls readResponse(NULL) or readDataResponse().
WaitStart ==
  /\ gs.ub = "none"
  /\ op.pre # "running"
  /\ \E call \in {"readResponse", "readDataResponse"} :
       op' = [NoOp EXCEPT !.name = call, !.pre = "running"]
  /\ gs' = [StartOp(gs) EXCEPT !.elapsed = 0]

\* millis() advances.
Tick ==
  /\ gs.ub = "none"
  /\ gs.elapsed <= RESPONSE_TIMEOUT
  /\ gs' = [gs EXCEPT !.elapsed = @ + 1]
  /\ op' = op

\* The module has one more byte ready.
ModuleStreams ==
  /\ gs.ub = "none"
  /\ gs.serial = <<>>
  /\ \E c \in StreamAlphabet : gs' = [gs EXCEPT !.serial = <<c>>]
  /\ op' = op

\* One round of the loop of the running readResponse(NULL): op.arg is the
\* line read so far, op.flag is skip_line.
ReadResponseRound ==
  /\ gs.ub = "none"
  /\ op.name = "readResponse" /\ op.pre = "running"
  /\ \E x \in {readResponseRound(gs, op.arg, op.flag, FALSE,
                                 gs.elapsed > RESPONSE_TIMEOUT)} :
       /\ gs' = x.st
       /\ op' = [op EXCEPT !.arg = x.line, !.flag = x.skip_line, !.res = x.res,
                           !.pre = IF x.done THEN "returned" ELSE "running"]

\* One round of the loop of the running readDataResponse().
ReadDataResponseRound ==
  /\ gs.ub = "none"
  /\ op.name = "readDataResponse" /\ op.pre = "running"
  /\ \E x \in {readDataResponseRound(gs, gs.elapsed > RESPONSE_TIMEOUT)} :
       /\ gs' = x.st
       /\ op' = [op EXCEPT !.res = IF ~x.done THEN "" ELSE IF x.ok THEN "true" ELSE "false",
                           !.pre = IF x.done THEN "returned" ELSE "running"]

NextWait == WaitStart \/ Tick \/ ModuleStreams \/ ReadResponseRound \/ ReadDataResponseRound

\* The clock advances and the running call is executed.
SpecWait ==
  /\ InitWait /\ [][NextWait]_vars
  /\ WF_vars(Tick) /\ WF_vars(ReadResponseRound) /\ WF_vars(ReadDataResponseRound)


(****************************** the fault latch ******************************)

MaxFaultFrames == 2
FaultCid == 1
FaultCommand == Bytes(<<"A", "T">>)
FaultPayload == <<Ch("Q")>>

\* The operations below record their name, their result (op.arg, or op.res
\* for readResponse) and whether the latch was set when they were called.
Called(name, result, latched) ==
  [NoOp EXCEPT !.name = name, !.arg = result, !.flag = latched]

CallReadData ==
  /\ gs.ub = "none" /\ gs.transport # "none"
  /\ \E r \in {readData(StartOp(gs), FaultCid)} :
       /\ gs' = r.st
       /\ op' = Called("readData", <<r.c>>, gs.unrecoverableError)

CallPeekData ==
  /\ gs.ub = "none" /\ gs.transport # "none"
  /\ \E r \in {peekData(StartOp(gs), FaultCid)} :
       /\ gs' = r.st
       /\ op' = Called("peekData", <<r.c>>, gs.unrecoverableError)

CallAvailableData ==
  /\ gs.ub = "none" /\ gs.transport # "none"
  /\ \E r \in {availableData(StartOp(gs), FaultCid)} :
       /\ gs' = r.st
       /\ op' = Called("availableData", <<r.ret>>, gs.unrecoverableError)

CallWriteData ==
  /\ gs.ub = "none" /\ gs.transport # "none"
  /\ \E r \in {writeData(StartOp(gs), FaultCid, FaultPayload)} :
       /\ gs' = r.st
       /\ op' = Called("writeData", <<IF r.ok THEN 1 ELSE 0>>, gs.unrecoverableError)

CallWriteCommand ==
  /\ gs.ub = "none" /\ gs.transport # "none"
  /\ gs' = writeCommand(StartOp(gs), FaultCommand)
  /\ op' = Called("writeCommand", <<>>, gs.unrecoverableError)

CallReadResponse ==
  /\ gs.ub = "none" /\ gs.transport # "none"
  /\ \E r \in {readResponse(StartOp(gs), FALSE)} :
       /\ gs' = r.st
       /\ op' = [Called("readResponse", <<>>, gs.unrecoverableError) EXCEPT !.res = r.res]

CallLoop ==
  /\ gs.ub = "none" /\ gs.transport # "none"
  /\ gs' = loop(StartOp(gs))
  /\ op' = Called("loop", <<>>, gs.unrecoverableError)

CallEnd ==
  /\ gs.ub = "none" /\ gs.transport # "none"
  /\ gs' = end(StartOp(gs))
  /\ op' = Called("end", <<>>, gs.unrecoverableError)

\* The module sends a bulk frame, or the answer to a bulk header.
FaultModule ==
  \/ \E len \in FrameLens : gs.g_items < MaxFaultFrames /\ ModuleSendFrame(FaultCid, len)
  \/ ModuleSendBytes(<<CH_ESC, Ch("O")>>, MaxFaultFrames)

NextFault ==
  \/ FaultModule
  \/ CallReadData
  \/ CallPeekData
  \/ CallAvailableData
  \/ CallWriteData
  \/ CallWriteCommand
  \/ CallReadResponse
  \/ CallLoop
  \/ CallEnd

SpecFault == Init /\ [][NextFault]_vars


(************************ asynchronous message checks ***********************)

MaxAsyncItems == 3

\* Messages processAsync is to reject: a subtype above GS_ASYNC_MAX, no
\* payload, another subtype in the payload, no space after the subtype,
\* arguments where none belong, none where one belongs, a CID of two digits,
\* and the CONNECT of an incoming connection.
WireRejected ==
  { AsyncBytes(13, 1, <<HexDigit(13)>>),
    AsyncBytes(12, 0, <<>>),
    AsyncBytes(12, 1, <<Ch("3")>>),
    AsyncBytes(1, 3, <<Ch("1"), Ch("1"), Ch("1")>>),
    AsyncBytes(12, 3, <<Ch("c"), CH_SP, Ch("1")>>),
    AsyncBytes(1, 1, <<Ch("1")>>),
    AsyncBytes(2, 4, <<Ch("2"), CH_SP, Ch("1"), Ch("1")>>),
    AsyncBytes(1, 16, <<Ch("1"), CH_SP, Ch("0"), CH_SP, Ch("1"), CH_SP,
                        Ch("1"), CH_DOT, Ch("2"), CH_DOT, Ch("3"), CH_DOT, Ch("4"),
                        CH_SP, Ch("8"), Ch("0")>>) }

WireAccepted == {AsyncAssociated, AsyncConnect(1), AsyncClose(1)}

NextAsync ==
  \/ \E bytes \in WireRejected \cup WireAccepted : ModuleSendBytes(bytes, MaxAsyncItems)
  \/ ProcessIncoming

SpecAsync == Init /\ [][NextAsync]_vars


(****************************** reconnections *******************************)

MaxReconnectItems == 5
ReconnectCid == 1

\* A sketch of a derived class marks a connection it negotiated TLS on.
EnableTls(cid) ==
  /\ gs.ub = "none"
  /\ gs.connections[cid].connected
  /\ ~gs.connections[cid].ssl
  /\ gs' = [gs EXCEPT !.connections[cid].ssl = TRUE]
  /\ op' = NoOp

\* The module reports connections and sends frames that overflow rx_data, so
\* that dropData() marks the connection.
NextReconnect ==
  \/ \E bytes \in {AsyncConnect(ReconnectCid), AsyncConnect(3)} :
       ModuleSendBytes(bytes, MaxReconnectItems)
  \/ ModuleSendFrame(ReconnectCid, MaxLen)
  \/ ProcessIncoming
  \/ Loop
  \/ EnableTls(ReconnectCid)

SpecReconnect == InitConn /\ [][NextReconnect]_vars


(****************************** reply buffers ******************************)

MaxReplyLines == 3

\* Lines of data, replies that end the wait, and the reply to a connect.
DataLines ==
  {Bytes(<<"a", "b", "c">>), Bytes(<<"a", "b", "c", "0">>), Bytes(<<"c">>),
   Bytes(<<"1", "5", "a", "b", "c">>)}
TerminalLines == {Bytes(<<"0">>), Bytes(<<"1">>), Bytes(<<"1", "5">>)}
ConnectLines == {<<Ch("7"), CH_SP, Ch("1")>>}
ReplyLines == DataLines \cup TerminalLines \cup ConnectLines

\* sizeof of the destination the sketch passes to readResponse(buf, len).
BufLens == {2, 4, 5, 12}

\* The sketch registered an error stream.
InitReply ==
  /\ gs = [Engine(0) EXCEPT !.error = TRUE]
  /\ op = NoOp

\* The lines in the bytes the module sent and the engine has not read.
RECURSIVE SplitLines(_, _)
SplitLines(bytes, line) ==
  IF bytes = <<>> THEN IF line = <<>> THEN <<>> ELSE <<line>>
  ELSE IF Head(bytes) \in {CH_CR, CH_LF}
  THEN (IF line = <<>> THEN <<>> ELSE <<line>>) \o SplitLines(Tail(bytes), <<>>)
  ELSE SplitLines(Tail(bytes), Append(line, Head(bytes)))

Pending == SplitLines(gs.serial, <<>>)

ModuleSendLine(line) ==
  /\ gs.ub = "none"
  /\ gs.g_items < MaxReplyLines
  /\ gs' = [gs EXCEPT !.serial = @ \o line \o <<CH_CR, CH_LF>>, !.g_items = @ + 1]
  /\ op' = NoOp

\* What a call returned: the code, *len and the len bytes of the destination,
\* *connect_cid and the lines given to the callback; read and line_start are
\* the locals when it returned.
Returned(name, mode, r) ==
  [NoOp EXCEPT !.name = name, !.arg = Pending, !.pre = mode, !.res = r.res,
               !.flag = [len |-> r.len, data |-> Cells(r.x.buf, 0, r.len),
                         connect_cid |-> r.x.connect_cid, passed |-> r.x.passed,
                         overrun |-> r.x.overrun, dropped |-> r.x.dropped_data,
                         read |-> r.x.read, line_start |-> r.x.line_start]]

\* A write to the byte after the destination is undefined: the call goes on
\* with that byte changed, or the program is corrupted.
ReadResponseData(len, has_connect_cid) ==
  /\ gs.ub = "none"
  /\ \E r \in {readResponseData(gs, len, has_connect_cid)} :
       \E corrupted \in IF r.x.overrun THEN BOOLEAN ELSE {FALSE} :
         /\ gs' = IF corrupted THEN Undefined(r.st, "write past the destination") ELSE r.st
         /\ op' = Returned("readResponseData",
                           [len |-> len, has_connect_cid |-> has_connect_cid,
                            latched |-> gs.unrecoverableError], r)

ReadResponseCallback(has_connect_cid) ==
  /\ gs.ub = "none"
  /\ \E r \in {readResponseCallback(gs, has_connect_cid)} :
       \E corrupted \in IF r.x.overrun THEN BOOLEAN ELSE {FALSE} :
         /\ gs' = IF corrupted THEN Undefined(r.st, "write past the destination") ELSE r.st
         /\ op' = Returned("readResponseCallback",
                           [len |-> MAX_DATA_LINE_SIZE, has_connect_cid |-> has_connect_cid,
                            latched |-> gs.unrecoverableError], r)

ReadResponseDiscard(has_connect_cid) ==
  /\ gs.ub = "none"
  /\ \E r \in {readResponseDiscard(gs, has_connect_cid)} :
       \E corrupted \in IF r.x.overrun THEN BOOLEAN ELSE {FALSE} :
         /\ gs' = IF corrupted THEN Undefined(r.st, "write past the destination") ELSE r.st
         /\ op' = Returned("readResponseDiscard",
                           [len |-> MAX_RESPONSE_SIZE, has_connect_cid |-> has_connect_cid,
                            latched |-> gs.unrecoverableError], r)

NextReply ==
  \/ \E line \in ReplyLines : ModuleSendLine(line)
  \/ \E len \in BufLens, has_connect_cid \in BOOLEAN : ReadResponseData(len, has_connect_cid)
  \/ \E has_connect_cid \in BOOLEAN : ReadResponseCallback(has_connect_cid)
  \/ \E has_connect_cid \in BOOLEAN : ReadResponseDiscard(has_connect_cid)

SpecReply == InitReply /\ [][NextReply]_vars


(********************************* numbers *********************************)

MaxDigits == 5

DigitAlphabet == {Ch("3"), Ch("5"), Ch("6"), Ch("9"), Ch("f"), Ch("#")}

RECURSIVE DigitStrings(_)
DigitStrings(n) ==
  IF n = 0 THEN {<<>>}
  ELSE On(DigitStrings(n - 1), LAMBDA shorter :
         shorter \cup {Append(l, c) : l \in shorter, c \in DigitAlphabet})

Bases == {2, 8, 10, 16}

\* A caller is about to parse the characters in op.arg in the base op.pre.
InitNumber ==
  /\ gs = Engine(0)
  /\ op \in {[NoOp EXCEPT !.name = "number", !.arg = buf, !.pre = base] :
               buf \in DigitStrings(MaxDigits), base \in Bases}

ParseNumber16 ==
  /\ op.name = "number"
  /\ op' = [op EXCEPT !.name = "parseNumber16", !.res = parseNumber16(op.arg, op.pre),
                      !.flag = UINT16_RANGE - 1]
  /\ UNCHANGED gs

ParseNumber8 ==
  /\ op.name = "number"
  /\ op' = [op EXCEPT !.name = "parseNumber8", !.res = parseNumber8(op.arg, op.pre),
                      !.flag = UINT8_RANGE - 1]
  /\ UNCHANGED gs

NextNumber == ParseNumber16 \/ ParseNumber8

SpecNumber == InitNumber /\ [][NextNumber]_vars


(******************************* IP addresses ******************************)

MaxIpLen == 5

IpAlphabet == {Ch("0"), Ch("2"), Ch("5"), Ch("6"), CH_DOT, Ch("a")}

RECURSIVE IpStrings(_)
IpStrings(n) ==
  IF n = 0 THEN {<<>>}
  ELSE On(IpStrings(n - 1), LAMBDA shorter :
         shorter \cup {Append(l, c) : l \in shorter, c \in IpAlphabet})

\* Addresses of four and of five octets.
IpExamples ==
  {<<Ch("2"), CH_DOT, Ch("2"), CH_DOT, Ch("2"), CH_DOT, Ch("2"), CH_DOT, Ch("2")>>,
   <<Ch("2"), Ch("5"), Ch("5"), CH_DOT, Ch("2"), Ch("6"), Ch("0"), CH_DOT, Ch("0"),
     CH_DOT, Ch("2"), Ch("5"), Ch("6")>>,
   <<Ch("2"), Ch("5"), Ch("5"), CH_DOT, Ch("2"), Ch("5"), Ch("5"), CH_DOT, Ch("0"),
     CH_DOT, Ch("2"), Ch("0"), Ch("0")>>}

\* A caller is about to parse the characters in op.arg.
InitIp ==
  /\ gs = Engine(0)
  /\ op \in {[NoOp EXCEPT !.name = "address", !.arg = str] :
               str \in IpStrings(MaxIpLen) \cup IpExamples}

\* parseIpAddress(&ip, str, len) on the len characters, or on the empty
\* C string when there is none.
ParseIpAddress ==
  /\ op.name = "address"
  /\ op' = [op EXCEPT !.name = "parseIpAddress", !.res = parseIpAddress(op.arg, <<0>>)]
  /\ UNCHANGED gs

NextIp == ParseIpAddress

SpecIp == InitIp /\ [][NextIp]_vars


(******************************* bulk writes *******************************)

MaxBulkItems == 4

\* The payload of a request: byte i is i modulo 251, so that bytes the SPI
\* framing reserves are among them.
BulkPayload(len) == [i \in 1..len |-> i % 251]

BulkLens == {2, MAX_BULK + 1, 2 * MAX_BULK + 2}
BulkCids == {1, MAX_CID + 1}

\* What the module sends on its own: the answers to a frame prefix and, on
\* SPI, flow control and the ALL-ONES of a broken link.
BulkAnswers == {<<CH_ESC, Ch("O")>>, <<CH_ESC, Ch("F")>>}
BulkSignals ==
  {<<SPI_SPECIAL_XOFF>>, <<SPI_SPECIAL_XON>>,
   [i \in 1..(SPI_ERROR_LIMIT + 1) |-> SPI_SPECIAL_ALL_ONE]}

InitBulk ==
  /\ gs \in {[Engine(0) EXCEPT !.transport = t] : t \in {"serial", "spi"}}
  /\ op = NoOp

\* The last bytes on the wire are the prefix <ESC>Z<cid> of a frame.
PrefixOnWire ==
  /\ op.name = "writeData" /\ op.pre = "awaiting"
  /\ Len(gs.g_wire) >= 3
  /\ SubSeq(gs.g_wire, Len(gs.g_wire) - 2, Len(gs.g_wire))
       = SubSeq(BulkHeader(op.arg.cid, 0), 1, 3)

\* The module answers a prefix it received; the signals come at any time.
ModuleAnswers(bytes) ==
  /\ gs.ub = "none"
  /\ gs.g_items < MaxBulkItems
  /\ bytes \in BulkSignals => gs.transport = "spi" /\ Len(gs.serial) <= 2
  /\ bytes \in BulkAnswers => gs.serial = <<>> /\ PrefixOnWire
  /\ gs' = [gs EXCEPT !.serial = @ \o bytes, !.g_items = @ + 1]
  /\ UNCHANGED op

\* The chunk of the request that the frame in progress carries.
Chunk(buf, sent) ==
  SubSeq(buf, sent + 1, IF Len(buf) - sent > MAX_BULK THEN sent + MAX_BULK ELSE Len(buf))

\* writeData(cid, buf, len) up to its first wait for the module. op.arg is
\* the request, op.flag the number of payload bytes of the frames before the
\* one in progress.
WriteDataCall(cid, len) ==
  /\ gs.ub = "none"
  /\ op.pre \notin {"awaiting", "written"}
  /\ IF cid > MAX_CID
     THEN /\ gs' = [gs EXCEPT !.g_wire = <<>>, !.g_acks = <<>>]
          /\ op' = [NoOp EXCEPT !.name = "writeData",
                                !.arg = [cid |-> cid, buf |-> BulkPayload(len)],
                                !.pre = "returned", !.res = "false", !.flag = 0]
     ELSE /\ gs' = writeDataPrefix([gs EXCEPT !.g_wire = <<>>, !.g_acks = <<>>], cid,
                                   Len(Chunk(BulkPayload(len), 0)))
          /\ op' = [NoOp EXCEPT !.name = "writeData",
                                !.arg = [cid |-> cid, buf |-> BulkPayload(len)],
                                !.pre = "awaiting", !.flag = 0]

\* One round of readDataResponse() in writeData(), and what follows when it
\* returns: false, or the rest of the frame. A round that reads nothing finds
\* the deadline passed.
WriteDataAwait ==
  /\ gs.ub = "none"
  /\ op.name = "writeData" /\ op.pre = "awaiting"
  /\ \E r \in {readDataResponseRound(gs, TRUE)} :
       IF ~r.done THEN gs' = r.st /\ UNCHANGED op
       ELSE IF ~r.ok THEN gs' = r.st /\ op' = [op EXCEPT !.pre = "returned", !.res = "false"]
       ELSE \E chunk \in {Chunk(op.arg.buf, op.flag)} :
              /\ gs' = writeDataRest(r.st, op.arg.cid, chunk)
              /\ op' = [op EXCEPT !.pre = "written", !.flag = @ + Len(chunk)]

\* writeData() after a frame: true when it was the last one, else the prefix
\* of the next frame.
WriteDataNext ==
  /\ gs.ub = "none"
  /\ op.name = "writeData" /\ op.pre = "written"
  /\ IF op.flag = Len(op.arg.buf)
     THEN /\ op' = [op EXCEPT !.pre = "returned", !.res = "true"]
          /\ UNCHANGED gs
     ELSE /\ gs' = writeDataPrefix(gs, op.arg.cid, Len(Chunk(op.arg.buf, op.flag)))
          /\ op' = [op EXCEPT !.pre = "awaiting"]

NextBulk ==
  \/ \E bytes \in BulkAnswers \cup BulkSignals : ModuleAnswers(bytes)
  \/ \E cid \in BulkCids, len \in BulkLens : WriteDataCall(cid, len)
  \/ WriteDataAwait
  \/ WriteDataNext

SpecBulk == InitBulk /\ [][NextBulk]_vars


(************************ reads for one CID of several ***********************)

MaxAskFrames == 3

\* The frames the module sends: one byte for CID 1, MaxLen bytes for CID 2.
AskFrames == {[cid |-> 1, len |-> 1], [cid |-> 2, len |-> MaxLen]}

\* The payload the module sent, frame after frame, each byte with its CID.
RECURSIVE SentFrom(_, _)
SentFrom(frames, f) ==
  IF f > Len(frames) THEN <<>>
  ELSE [k \in 1..frames[f].len |-> <<frames[f].cid, PayloadByte(f, k)>>]
         \o SentFrom(frames, f + 1)

\* The CID of the oldest frame of which a payload byte was neither read nor
\* dropped in the engine s, INVALID_CID when there is none.
OldestCid(s) ==
  IF Len(s.g_out) + Len(s.g_drop) < Len(SentFrom(s.g_frames, 1))
  THEN SentFrom(s.g_frames, 1)[Len(s.g_out) + Len(s.g_drop) + 1][1]
  ELSE INVALID_CID

\* A frame of the CID cid was sent after the oldest unconsumed frame.
QueuedBehind(s, cid) ==
  \E f \in 1..Len(s.g_frames) :
    /\ s.g_frames[f].cid = cid
    /\ Len(SentFrom(SubSeq(s.g_frames, 1, f - 1), 1)) > Len(s.g_out) + Len(s.g_drop)

\* What up to n readData(cid) calls return from the engine s until one
\* returns -1.
RECURSIVE DrainOf(_, _, _)
DrainOf(s, cid, n) ==
  IF n = 0 \/ s.ub # "none" THEN <<>>
  ELSE On(readData(s, cid), LAMBDA r :
         IF r.c < 0 THEN <<>> ELSE <<r.c>> \o DrainOf(r.st, cid, n - 1))

\* The sketch's calls below record their name, the CID asked for and the
\* result in op.arg, and in op.flag what the engine s they were called on
\* held: the CID of its oldest unconsumed frame and what reading that CID
\* would have returned, whether a frame of the CID asked for was queued
\* behind, whether the ring was empty, the length left in tail_frame, whether
\* an enqueue had overflowed and whether the module had sent nothing more,
\* and how much was read and dropped by then. g_reads then counts the readRaw() calls
\* the call made.
Asked(name, cid, result, s) ==
  [NoOp EXCEPT !.name = name, !.arg = <<cid, result>>,
               !.flag = [oldest |-> OldestCid(s),
                         drain |-> DrainOf(s, OldestCid(s), MaxAskFrames * MaxLen),
                         behind |-> QueuedBehind(s, cid),
                         empty |-> s.rx_data_head = s.rx_data_tail,
                         length |-> s.tail_frame.length,
                         full |-> s.g_full,
                         quiet |-> s.serial = <<>>,
                         taken |-> Len(s.g_out) + Len(s.g_drop)]]

AskModule(cid, len) ==
  /\ Len(gs.g_frames) < MaxAskFrames
  /\ ModuleSendFrame(cid, len)

AskLoop ==
  /\ gs.ub = "none"
  /\ gs' = loop([gs EXCEPT !.g_reads = 0])
  /\ op' = NoOp

AskAvailableData(cid) ==
  /\ gs.ub = "none"
  /\ \E r \in {availableData([gs EXCEPT !.g_reads = 0], cid)} :
       /\ gs' = r.st
       /\ op' = Asked("availableData", cid, r.ret, gs)

AskPeekData(cid) ==
  /\ gs.ub = "none"
  /\ \E r \in {peekData([gs EXCEPT !.g_reads = 0], cid)} :
       /\ gs' = r.st
       /\ op' = Asked("peekData", cid, r.c, gs)

AskReadData(cid) ==
  /\ gs.ub = "none"
  /\ \E r \in {readData([gs EXCEPT !.g_reads = 0], cid)} :
       /\ gs' = (IF r.c >= 0 THEN [r.st EXCEPT !.g_out = Append(@, <<cid, r.c>>)] ELSE r.st)
       /\ op' = Asked("readData", cid, r.c, gs)

AskReadDataBuf(cid, size) ==
  /\ gs.ub = "none"
  /\ \E r \in {readDataBuf([gs EXCEPT !.g_reads = 0], cid, size)} :
       /\ gs' = [r.st EXCEPT !.g_out = @ \o Tagged(cid, SubSeq(r.buf, 1, r.ret))]
       /\ op' = Asked("readData(buf)", cid, r.ret, gs)

NextAsk ==
  \/ \E f \in AskFrames : AskModule(f.cid, f.len)
  \/ AskLoop
  \/ \E cid \in FrameCids : AskAvailableData(cid)
  \/ \E cid \in FrameCids : AskPeekData(cid)
  \/ \E cid \in FrameCids : AskReadData(cid)
  \/ \E cid \in FrameCids, size \in ReadSizes : AskReadDataBuf(cid, size)

SpecAsk == Init /\ [][NextAsk]_vars


(*********************** replies mixed with escapes ************************)

MaxMixedItems == 2

\* A reply of the module cut in two where an escape sequence arrives: inside
\* a terminal line, inside a data line, before the reply and between two
\* lines.
MixedReplies ==
  { <<Bytes(<<"1">>), Bytes(<<"5">>) \o <<CH_CR, CH_LF>>>>,
    <<Bytes(<<"a", "b">>), Bytes(<<"c">>) \o <<CH_CR, CH_LF>> \o Bytes(<<"0">>) \o <<CH_CR, CH_LF>>>>,
    <<(<<>>), Bytes(<<"0">>) \o <<CH_CR, CH_LF>>>>,
    <<Bytes(<<"a", "b", "c">>) \o <<CH_CR, CH_LF>>, Bytes(<<"1">>) \o <<CH_CR, CH_LF>>>> }

\* Bulk frames of one and two bytes, a UDP-server frame, CONNECT 1,
\* NWCONN-SUCCESS and an unknown escape; a bulk header and an async header
\* that declare length 0.
MixedEscapes ==
  { FrameBytes(1, 1, 1), FrameBytes(1, 2, 2),
    <<CH_ESC>> \o Bytes(<<"y", "1", "1">>) \o <<CH_DOT, Ch("2"), CH_DOT, Ch("0"), CH_DOT, Ch("0"),
                                                 CH_SP, Ch("5"), CH_TAB>>
               \o Bytes(<<"0", "0", "0", "1">>) \o <<7>>,
    AsyncBytes(1, 3, <<Ch("1"), CH_SP, Ch("1")>>),
    AsyncBytes(12, 1, <<Ch("c")>>),
    <<CH_ESC, Ch("#")>>,
    FrameBytes(1, 1, 0),
    AsyncBytes(3, 0, <<>>) }

DeclaresNothing(esc) == esc \in {FrameBytes(1, 1, 0), AsyncBytes(3, 0, <<>>)}

\* What the receive path holds: the ring, its cursors, the two frame
\* descriptors and rx_state.
RingView(s) ==
  [rx_data |-> s.rx_data, rx_data_head |-> s.rx_data_head, rx_data_tail |-> s.rx_data_tail,
   head_frame |-> s.head_frame, tail_frame |-> s.tail_frame, rx_state |-> s.rx_state]

\* What readResponse gave back to the sketch.
ReplyView(r) == [res |-> r.res, len |-> r.len, data |-> Cells(r.x.buf, 0, r.len)]

\* The module sends the first part of a reply, an escape sequence and the
\* rest of the reply, behind the line ending the last call left unread.
ModuleSendMixed(reply, esc) ==
  /\ gs.ub = "none"
  /\ op.name # "sent"
  /\ gs.rx_state = "IDLE"
  /\ ~gs.unrecoverableError
  /\ gs.g_items < MaxMixedItems
  /\ gs' = [gs EXCEPT !.serial = @ \o reply[1] \o esc \o reply[2], !.g_items = @ + 1]
  /\ op' = [NoOp EXCEPT !.name = "sent",
                        !.arg = <<gs.serial \o reply[1], esc, reply[2]>>]

\* readResponse(buf, &len, NULL) reads what the module sent. The operation
\* records what it returned and left in the ring, what the same call returns
\* for the reply without the escape sequence, and what processIncoming
\* leaves in the ring for the escape sequence alone.
ReadResponseMixed(len) ==
  /\ gs.ub = "none"
  /\ op.name = "sent"
  /\ \E r \in {readResponseData(gs, len, FALSE)} :
     \E plain \in {readResponseData([gs EXCEPT !.serial = op.arg[1] \o op.arg[3]], len, FALSE)} :
     \E alone \in {FeedAll(gs, op.arg[2])} :
       \E corrupted \in IF r.x.overrun THEN BOOLEAN ELSE {FALSE} :
         /\ gs' = IF corrupted THEN Undefined(r.st, "write past the destination") ELSE r.st
         /\ op' = [NoOp EXCEPT !.name = "readResponse", !.arg = op.arg, !.res = r.res,
                               !.flag = [reply |-> ReplyView(r), plain |-> ReplyView(plain),
                                         ring |-> RingView(r.st), alone |-> RingView(alone),
                                         left |-> r.st.serial]]

\* The sketch takes one buffered byte, of any CID.
MixedReadData ==
  /\ gs.ub = "none"
  /\ op.name # "sent"
  /\ gs.rx_data_head # gs.rx_data_tail
  /\ \E r \in {readDataAny(gs)} :
       /\ gs' = r.st
       /\ op' = NoOp

NextMixed ==
  \/ \E reply \in MixedReplies, esc \in MixedEscapes : ModuleSendMixed(reply, esc)
  \/ \E len \in {5, 12} : ReadResponseMixed(len)
  \/ MixedReadData

SpecMixed == InitReply /\ [][NextMixed]_vars


(**************************** connection errors *****************************)

MaxErrorItems == 4

\* <ESC>A0030 <cid>: ERROR: SOCKET FAILURE <CID>
AsyncSockFail(cid) == AsyncBytes(0, 3, <<Ch("0"), CH_SP, HexDigit(cid)>>)

\* The module connects, fails and closes one connection, and sends frames
\* that overflow rx_data, so that dropData() marks the connection.
ErrorModule ==
  \/ \E bytes \in {AsyncConnect(FaultCid), AsyncSockFail(FaultCid), AsyncClose(FaultCid)} :
       ModuleSendBytes(bytes, MaxErrorItems)
  \/ gs.g_items < MaxErrorItems /\ ModuleSendFrame(FaultCid, MaxLen)

NextError ==
  \/ ErrorModule
  \/ CallLoop
  \/ CallReadData
  \/ CallPeekData
  \/ CallAvailableData
  \/ CallEnd

SpecError == InitConn /\ [][NextError]_vars


(************************** CIDs from the module ****************************)

MaxCidItems == 3

\* CID characters: two hexadecimal digits and two letters beyond 'f'.
CidChars == {"1", "f", "g", "z"}

\* CONNECT, DISCONNECT and SOCKET FAILURE for the CID character, and a bulk
\* frame of MaxLen bytes for it.
CidWire ==
  UNION { { AsyncBytes(1, 3, <<Ch("1"), CH_SP, Ch(ch)>>),
            AsyncBytes(2, 3, <<Ch("2"), CH_SP, Ch(ch)>>),
            AsyncBytes(0, 3, <<Ch("0"), CH_SP, Ch(ch)>>),
            <<CH_ESC, Ch("Z"), Ch(ch)>> \o Dec4(MaxLen) \o [k \in 1..MaxLen |-> k] }
          : ch \in CidChars }

NextCid ==
  \/ \E bytes \in CidWire : ModuleSendBytes(bytes, MaxCidItems)
  \/ ProcessIncoming

SpecCid == Init /\ [][NextCid]_vars


(************************** UDP-server headers ******************************)

MaxUdpItems == 3

\* <ESC>y<cid><ip> <port>\t<4 digit length><payload>
UdpBytes(cid, ip, port, len, payload) ==
  <<CH_ESC, Ch("y"), HexDigit(cid)>> \o ip \o <<CH_SP>> \o port \o <<CH_TAB>>
    \o Dec4(len) \o payload

\* A header that fits rx_async; one whose address fills rx_async, so that
\* neither delimiter is stored; one whose port is so long that only the first
\* digit of the length is stored.
UdpWire ==
  { UdpBytes(1, <<Ch("1"), CH_DOT, Ch("2"), CH_DOT, Ch("0"), CH_DOT, Ch("0")>>,
             <<Ch("5")>>, 1, <<7>>),
    UdpBytes(1, <<Ch("1"), Ch("0"), Ch("0"), CH_DOT, Ch("1"), Ch("0"), Ch("0"), CH_DOT,
                  Ch("1"), Ch("0"), Ch("0"), CH_DOT, Ch("1"), Ch("0"), Ch("0")>>,
             <<Ch("5")>>, 1, <<7>>),
    UdpBytes(1, <<Ch("1"), CH_DOT, Ch("2"), CH_DOT, Ch("0"), CH_DOT, Ch("0")>>,
             <<Ch("0"), Ch("0"), Ch("0"), Ch("0"), Ch("5")>>, 1, <<7>>) }

NextUdp ==
  \/ \E bytes \in UdpWire : ModuleSendBytes(bytes, MaxUdpItems)
  \/ ProcessIncoming

SpecUdp == Init /\ [][NextUdp]_vars


(************************** events and the engine **************************)

MaxEventItems == 3

\* The module associates, connects CID 1, closes it, disassociates and
\* answers a command with OK or with LINK LOST.
EventWire ==
  {AsyncAssociated, AsyncConnect(FaultCid), AsyncClose(FaultCid), AsyncDisassociated,
   ReplyLinkLost, ReplyOk}

NextEvents ==
  \/ \E bytes \in EventWire : ModuleSendBytes(bytes, MaxEventItems)
  \/ CallLoop
  \/ CallReadResponse
  \/ CallEnd

SpecEvents == InitConn /\ [][NextEvents]_vars


(********************************* claims *********************************)

Sent == SentFrom(gs.g_frames, 1)

IsPrefix(a, b) == Len(a) <= Len(b) /\ a = SubSeq(b, 1, Len(a))

IsSent(pair) == \E j \in 1..Len(Sent) : Sent[j] = pair

\* Everything the module sent was taken from the wire and from the ring.
Drained ==
  /\ gs.serial = <<>> /\ gs.rx_state = "IDLE"
  /\ gs.rx_data_head = gs.rx_data_tail /\ gs.tail_frame.length = 0

\* What was read is, in order and with the CIDs, what was sent: a prefix of
\* it while frames are pending, all of it once drained, and nothing dropped.
FifoDelivery ==
  /\ gs.ub = "none"
  /\ IsPrefix(gs.g_out, Sent)
  /\ gs.g_drop = <<>>
  /\ Drained => gs.g_out = Sent

\* C1 (as stated): as long as the payload bytes and header records held never
\* exceed the ring capacity, reads return the payload in FIFO frame order, each
\* frame its declared number of bytes under its own CID.
C1_FifoWithinCapacity == ~gs.g_exceed => FifoDelivery

\* C1 (amended): as long as every enqueue finds room for what it writes, the
\* cells skipped by relocating a header record to index 0 included, reads
\* return the payload in FIFO frame order, each frame its declared number of
\* bytes under its own CID, wherever the cursors are and also when a header
\* record is relocated to index 0.
C1_FifoWhileRoom == ~gs.g_full => FifoDelivery

\* Three frames were read completely and in order, one of them with its
\* header record relocated to index 0.
C1_Witness ==
  /\ ~gs.g_full /\ gs.g_reloc /\ Drained
  /\ Len(gs.g_frames) = 3 /\ gs.g_out = Sent /\ Len(gs.g_out) >= 4

\* C2: every byte dropped by dropData is a payload byte the module sent, taken
\* from the connection that owns it, whose error flag is then set; nothing
\* but payload is ever dropped or returned.
C2_DropsArePayload ==
  /\ gs.ub = "none"
  /\ \A i \in 1..Len(gs.g_drop) :
       IsSent(gs.g_drop[i]) /\ gs.connections[gs.g_drop[i][1]].error
  /\ \A i \in 1..Len(gs.g_out) : IsSent(gs.g_out[i])

Occupancy(s) == IdxMod(s.rx_data_head - s.rx_data_tail)

\* n consecutive readData(cid) calls from s each return a payload byte that
\* the module sent for cid, and take nothing from the transport.
RECURSIVE ReadsPayload(_, _, _)
ReadsPayload(s, cid, n) ==
  IF n = 0 THEN TRUE
  ELSE LET r == readData(s, cid)
       IN  /\ r.c >= 0
           /\ IsSent(<<cid, r.c>>)
           /\ r.st.serial = s.serial
           /\ ReadsPayload(r.st, cid, n - 1)

\* C3: in every state availableData(cid) returns at most the bytes held in the
\* ring and at most tail_frame.length, and when it returns n > 0, n single-byte
\* readData(cid) calls each return a payload byte of that CID without the
\* transport.
C3_AvailableIsReadable ==
  gs.ub = "none" =>
    \A cid \in 0..MAX_CID :
      LET a == availableData(gs, cid)
      IN  /\ a.ret <= Occupancy(a.st)
          /\ a.ret <= a.st.tail_frame.length
          /\ a.ret > 0 => ReadsPayload(a.st, cid, a.ret)

\* C4: while a frame that declared L bytes is in BULK state, fewer than L of
\* its bytes were consumed: the L-th byte ends the frame, and L = 0 leaves no
\* BULK state at all.
C4_BulkEndsAtLength == gs.rx_state = "BULK" => gs.g_bulk < gs.g_declared

\* The byte c completes, in state s, an escape sequence that is recoverable
\* noise: an unknown escape, or a Z / A / y header with a field that fails to
\* parse.
RecoverableNoise(s, c) ==
  LET h == s.rx_async \o <<c>>
  IN  \/ s.rx_state = "ESC" /\ c \notin {Ch("Z"), Ch("A"), Ch("y")}
      \/ /\ s.rx_state = "ESC_Z" /\ s.rx_async_left = 1 /\ Len(h) = 5
         /\ ~(parseNumber8(SubSeq(h, 1, 1), 16).ok /\ parseNumber16(SubSeq(h, 2, 5), 10).ok)
      \/ /\ s.rx_state = "ESC_A" /\ s.rx_async_left = 1 /\ Len(h) = 3
         /\ ~(parseNumber8(SubSeq(h, 1, 1), 16).ok /\ parseNumber8(SubSeq(h, 2, 3), 10).ok)
      \/ /\ s.rx_state = "ESC_y_3" /\ s.rx_async_left = 1 /\ Len(h) <= RX_ASYNC_SIZE
         /\ LET sp == ScanFor(h, 2, CH_SP)
                tab == IF sp = 0 THEN 0 ELSE ScanFor(h, sp + 1, CH_TAB)
            IN  /\ sp # 0 /\ tab # 0 /\ tab + 4 = Len(h)
                /\ ~(/\ parseNumber8(SubSeq(h, 1, 1), 16).ok
                     /\ parseIpAddress(SubSeq(h, 2, sp - 1), SubSeqFrom(h, 2)).ok
                     /\ parseNumber16(SubSeq(h, sp + 1, tab - 1), 10).ok
                     /\ parseNumber16(SubSeq(h, tab + 1, tab + 4), 10).ok)

C6_AsyncEndsAtLength == gs.rx_state = "ASYNC" => gs.g_async_got < gs.g_async_n

\* The digits of a response code on the wire.
CodeDigits(n) == IF n < 10 THEN <<48 + n>> ELSE <<48 + (n \div 10), 48 + (n % 10)>>

\* What a line stands for by its shape alone: the digits of a code without
\* arguments (or "OK"), the digits of SOCK_FAIL and two bytes of argument,
\* or, when a connect reply is expected, the digits of CON_SUCCESS, a space
\* and the CID digit; every other line is UNKNOWN.
ExpectedCode(line, has_connect_cid) ==
  IF line = Bytes(<<"O", "K">>) THEN "SUCCESS"
  ELSE IF \E name \in NoArgumentCodes : line = CodeDigits(GSResponseValue(name))
  THEN CHOOSE name \in NoArgumentCodes : line = CodeDigits(GSResponseValue(name))
  ELSE IF /\ Len(line) = 3
          /\ SubSeq(line, 1, 2) = CodeDigits(GSResponseValue("SOCK_FAIL")) \o <<CH_SP>>
  THEN "SOCK_FAIL"
  ELSE IF /\ has_connect_cid /\ Len(line) = 3
          /\ SubSeq(line, 1, 2) = CodeDigits(GSResponseValue("CON_SUCCESS")) \o <<CH_SP>>
          /\ parseNumber8(<<line[3]>>, 16).ok
  THEN "CON_SUCCESS"
  ELSE "UNKNOWN"

\* C7: processResponseLine returns the code a line stands for by its digits
\* (or "OK") and its argument shape, and UNKNOWN for every other line: "0" and
\* "OK" give SUCCESS, "0 foo", "217" and "3" give UNKNOWN, and a CON_SUCCESS
\* line gives UNKNOWN when connect_cid is null.
C7_LineClassification ==
  op.name = "processResponseLine" =>
    /\ gs.ub = "none"
    /\ op.res = ExpectedCode(op.arg, op.pre = "connect_cid")

\* The same, for the calls that stay within defined behaviour.
C7_DefinedClassification ==
  (op.name = "processResponseLine" /\ gs.ub = "none") =>
    op.res = ExpectedCode(op.arg, op.pre = "connect_cid")

\* The codes that are only sent asynchronously: 8, 10-14, 16-18.
AsyncOnlyCodes == {8, 16, 17, 18} \cup (10..14)

\* The line starts with the digits of an asynchronous-only code.
AsyncOnlyLine(line) ==
  \E n \in AsyncOnlyCodes :
    /\ Len(line) >= Len(CodeDigits(n))
    /\ SubSeq(line, 1, Len(CodeDigits(n))) = CodeDigits(n)
    /\ n < 10 => ~(Len(line) >= 2 /\ line[1] = Ch("1") /\ line[2] \in 48..56)

\* C8: a line whose code is asynchronous-only is classified UNKNOWN whatever
\* its arguments, changes nothing in the engine, and does not use the error
\* stream when none is registered.
C8_AsyncOnlyIsUnknown ==
  (op.name = "processResponseLine" /\ AsyncOnlyLine(op.arg)) =>
    /\ op.res = "UNKNOWN"
    /\ gs = [Engine(0) EXCEPT !.error = gs.error]
    /\ ~gs.error => ~op.flag

Connected(s) == {cid \in 0..MAX_CID : s.connections[cid].connected}

Count(seq, x) == Cardinality({i \in 1..Len(seq) : seq[i] = x})

\* The byte c completes, in state s, an asynchronous message that reports a
\* disassociation (subtype 0x3) or an IP / DHCP failure (subtype 0x8).
DisassociationEvent(s, c) ==
  /\ s.rx_state = "ASYNC" /\ s.rx_async_left = 1 /\ s.rx_async = <<>>
  /\ s.rx_async_subtype \in {3, 8}
  /\ c = HexDigit(s.rx_async_subtype)

\* C9: with associated true, no ASSOCIATED event pending and a set S of
\* connected CIDs, processing one disassociate event leaves associated false,
\* every CID of S disconnected with its error flag set, every other CID
\* unchanged and the DISASSOCIATED flag set, so that the next loop() calls
\* onDisassociate exactly once and the loop() after it does not.
C9_DisassociationCascade ==
  [][(/\ op'.name = "processIncoming"
      /\ DisassociationEvent(gs, op'.arg[1])
      /\ gs.associated
      /\ "ASSOCIATED" \notin gs.events) =>
       /\ gs'.ub = "none"
       /\ ~gs'.associated
       /\ \A cid \in 0..MAX_CID :
            IF cid \in Connected(gs)
            THEN ~gs'.connections[cid].connected /\ gs'.connections[cid].error
            ELSE gs'.connections[cid] = gs.connections[cid]
       /\ "DISASSOCIATED" \in gs'.events
       /\ "onDisassociate" \in gs'.callbacks =>
            /\ Count(loop(gs').g_fired, "onDisassociate") = 1
            /\ Count(loop(loop(gs')).g_fired, "onDisassociate") = 0]_vars

\* A disassociation message was just processed with CIDs 1 and 3 connected:
\* both are disconnected with error, and the event is pending for the sketch.
C9_Witness ==
  /\ op.name = "processIncoming" /\ op.pre = "ASYNC" /\ op.arg = <<Ch("3")>>
  /\ ~gs.associated /\ "DISASSOCIATED" \in gs.events
  /\ \A cid \in {1, 3} : ~gs.connections[cid].connected /\ gs.connections[cid].error
  /\ "onDisassociate" \in gs.callbacks
  /\ gs.ub = "none"

\* C10: after a disassociation trigger is processed (async subtype 0x3, async
\* subtype 0x8, or a LINK_LOST reply), whatever associated was before,
\* associated is false and no CID is connected.
C10_TriggerClearsConnections ==
  [][(\/ op'.name = "processIncoming" /\ DisassociationEvent(gs, op'.arg[1])
      \/ op'.name = "readResponse" /\ op'.res = "LINK_LOST") =>
       (~gs'.associated /\ Connected(gs') = {})]_vars

\* The order in which loop() dispatches (lines 193-208).
DispatchOrder == <<"onNcmDisconnect", "onDisassociate", "onAssociate", "onNcmConnect">>

\* Position of a callback in DispatchOrder.
OrderOf(callback) == CHOOSE i \in 1..Len(DispatchOrder) : DispatchOrder[i] = callback

\* C11: the callbacks one loop() call invoked are in the order NCM-disconnect,
\* disassociate, associate, NCM-connect, each at most once, so onDisassociate
\* comes before onAssociate in the same call.
C11_DispatchOrder ==
  \A i, j \in 1..Len(gs.g_fired) :
    i < j => OrderOf(gs.g_fired[i]) < OrderOf(gs.g_fired[j])

\* One loop() call delivered a disassociate and an associate, and more.
C11_Witness ==
  /\ Count(gs.g_fired, "onDisassociate") = 1
  /\ Count(gs.g_fired, "onAssociate") = 1
  /\ Len(gs.g_fired) >= 3


\* The events of the last closed poll cycle that concern the association, and
\* those that concern connections.
IsAssociationEvent(event) == event[1] \in {"associate", "disassociate"}
IsConnectionEvent(event) == event[1] \in {"connect", "disconnect"}
CycleStartedIdle == gs.g_from.events = {} /\ ~gs.g_from.associated
CycleStartedUnconnected == gs.g_from.events = {} /\ gs.g_from.ncm_auto_cid = INVALID_CID
AssociationPair == <<(<<"associate">>), (<<"disassociate">>)>>
ConnectionPair(cid) == <<(<<"connect", cid>>), (<<"disconnect", cid>>)>>

\* C12: when a poll cycle that started unassociated with no event pending
\* processed an associate event and then a disassociate event, the dispatch
\* closing it fired neither onAssociate nor onDisassociate; when a cycle that
\* started with no NCM connection and no event pending processed an NCM connect
\* and then a disconnect of the same CID, the dispatch fired neither
\* onNcmConnect nor onNcmDisconnect.
C12_CancelledPairs ==
  /\ (CycleStartedIdle /\ SelectSeq(gs.g_done, IsAssociationEvent) = AssociationPair) =>
       /\ Count(gs.g_fired, "onAssociate") = 0
       /\ Count(gs.g_fired, "onDisassociate") = 0
  /\ \A cid \in 0..MAX_CID :
       (CycleStartedUnconnected
        /\ SelectSeq(gs.g_done, IsConnectionEvent) = ConnectionPair(cid)) =>
         /\ Count(gs.g_fired, "onNcmConnect") = 0
         /\ Count(gs.g_fired, "onNcmDisconnect") = 0

C12_Witness ==
  /\ gs.callbacks = AllCallbacks
  /\ CycleStartedIdle
  /\ CycleStartedUnconnected
  /\ gs.g_done = AssociationPair \o ConnectionPair(1)
  /\ gs.g_fired = <<>>


\* C13: the dispatch of loop() leaves no event flag set, whether or not the
\* callbacks are registered, so a disassociation processed in a later cycle
\* than the association is raised: a cycle that started associated and
\* processed one disassociate event either fired onDisassociate or left
\* DISASSOCIATED pending.
C13_FlagsClearedEachCycle ==
  /\ gs.g_begin.events = {}
  /\ (gs.g_from.associated
      /\ SelectSeq(gs.g_done, IsAssociationEvent) = <<(<<"disassociate">>)>>) =>
        \/ Count(gs.g_fired, "onDisassociate") = 1
        \/ "DISASSOCIATED" \in gs.g_begin.events


\* C14: on the SPI transport the fault latch is set by the read of the 21st
\* ALL-ONES wire byte in a row that did not follow an ESCAPE introducer, and
\* by no other read: whenever the latch is set the run of such bytes was 21
\* long at that read, and a run of 21 leaves the latch set.
C14_LatchAtTwentyFirst ==
  /\ gs.unrecoverableError => gs.g_latch_at = SPI_ERROR_LIMIT + 1
  /\ (gs.transport = "spi" /\ gs.g_ones > SPI_ERROR_LIMIT) => gs.unrecoverableError
  /\ (gs.transport = "spi" /\ gs.g_latch_at # 0) => gs.unrecoverableError

C14_Witness ==
  /\ gs.transport = "spi"
  /\ gs.unrecoverableError
  /\ gs.g_ones = SPI_ERROR_LIMIT + 1
  /\ op.name = "readRaw"


\* What writeRaw is to put on the wire for the byte b.
Escaped(b) ==
  IF b \in SpiSpecials THEN <<SPI_SPECIAL_ESC, Xor8(b, SPI_ESC_XOR)>> ELSE <<b>>

WireIsEscaped ==
  op.name = "writeRaw" =>
    /\ gs.g_wire = Escaped(op.arg[1])
    /\ \A i \in 1..Len(gs.g_wire) :
         gs.g_wire[i] \in SpiSpecials =>
           (i = 1 /\ Len(gs.g_wire) = 2 /\ gs.g_wire[i] = SPI_SPECIAL_ESC)

LoopbackIsIdentity ==
  (op.name = "readRaw" /\ op.pre = "loopback" /\ gs.serial = <<>>) =>
    gs.g_logical = op.arg

ByteAfterEscapeIsData ==
  (gs.spi_prev_was_esc /\ op'.name = "readRaw" /\ gs.serial # <<>>) =>
    /\ gs'.g_logical = Append(gs.g_logical, Xor8(Head(gs.serial), SPI_ESC_XOR))
    /\ op'.res = "byte"
    /\ gs'.spi_xoff = gs.spi_xoff
    /\ gs'.errorcount = gs.errorcount
    /\ gs'.unrecoverableError = gs.unrecoverableError

\* C17: for every byte b, writeRaw puts on the SPI wire b itself, or ESCAPE and
\* b XOR mask when b is a reserved value; no byte it puts there but the ESCAPE
\* introducer is a reserved value; read back through processSpiSpecial the
\* bytes give the one logical byte b; and the byte read after ESCAPE is
\* delivered as data and leaves spi_xoff and the dead-link counter alone.
C17_EscapeRoundTrip ==
  /\ [](WireIsEscaped /\ LoopbackIsIdentity)
  /\ [][ByteAfterEscapeIsData]_vars

C17_Witness ==
  /\ op.name = "readRaw" /\ op.pre = "loopback" /\ gs.serial = <<>>
  /\ op.arg = <<SPI_SPECIAL_XOFF>>
  /\ gs.g_logical = op.arg
  /\ ~gs.spi_xoff


\* C18: for every cid in 0..MAX_CID and len in 1..1400, the seven header bytes
\* writeData emits, fed to processIncoming from GS_RX_IDLE, give head_frame
\* the same cid, length == len and udp_server == false, and rx_state BULK.
C18_HeaderRoundTrip ==
  (op.name = "processIncoming" /\ op.flag) =>
    /\ Len(gs.g_wire) = HEADER_SIZE - 1
    /\ gs.head_frame.cid = op.arg[1]
    /\ gs.head_frame.length = op.arg[2]
    /\ ~gs.head_frame.udp_server
    /\ gs.rx_state = "BULK"

C18_Witness ==
  /\ op.name = "processIncoming" /\ op.flag
  /\ op.arg = <<MAX_CID, MAX_BULK>>
  /\ gs.head_frame.cid = MAX_CID
  /\ gs.head_frame.length = MAX_BULK
  /\ gs.rx_state = "BULK"


\* The codes that end a reply (lines 544-548).
TerminalCodes ==
  {GSResponseNames[i] : i \in 1..Len(GSResponseNames)} \ {"CON_SUCCESS"}

\* C16: a running readResponse or readDataResponse returns, whatever the
\* module sends and however long it sends: with a terminal response code, or
\* with the fault latch set.
C16_ReturnsByDeadline ==
  /\ (op.pre = "running") ~> (op.pre = "returned")
  /\ [](op.pre = "returned" =>
          \/ gs.unrecoverableError
          \/ op.name = "readDataResponse" /\ op.res \in {"true", "false"}
          \/ op.name = "readResponse" /\ op.res \in TerminalCodes)


\* The failure sentinel of the last operation: -1 of readData and peekData, 0
\* of availableData, false of writeData, GS_UNRECOVERABLE_ERROR of
\* readResponse; writeCommand and loop return nothing.
ReturnedSentinel ==
  CASE op.name \in {"readData", "peekData"} -> op.arg = <<-1>>
    [] op.name \in {"availableData", "writeData"} -> op.arg = <<0>>
    [] op.name = "readResponse" -> op.res = "UNRECOVERABLE_ERROR"
    [] OTHER -> TRUE

\* C15: the fault latch stays set under every operation but end(), and an
\* operation called with the latch set returns its failure sentinel and makes
\* no transfer on the transport.
C15_LatchedOperationsFail ==
  (op.flag /\ op.name # "end") =>
    /\ gs.unrecoverableError
    /\ ~gs.g_io /\ gs.g_wire = <<>>
    /\ ReturnedSentinel


\* The value of a hexadecimal digit, or -1.
HexValue(c) ==
  IF c >= Ch("0") /\ c <= Ch("9") THEN c - Ch("0")
  ELSE IF c >= Ch("a") /\ c <= Ch("f") THEN 10 + c - Ch("a")
  ELSE IF c >= Ch("A") /\ c <= Ch("F") THEN 10 + c - Ch("A")
  ELSE -1

\* An <ESC>A message that passes the validation: a subtype up to 0xC, a
\* payload that starts with the same subtype, and then nothing, or a space
\* and the one-character CID of CONNECT, DISCONNECT and SOCKET FAILURE.
PassesValidation(subtype, payload) ==
  /\ subtype <= GS_ASYNC_MAX
  /\ payload # <<>>
  /\ HexValue(payload[1]) = subtype
  /\ Len(payload) > 1 => payload[2] = CH_SP
  /\ Len(payload) = (IF subtype \in {0, 1, 2} THEN 3 ELSE 1)

\* What a rejected message is to leave alone.
Tracked(s) ==
  [connections |-> s.connections, associated |-> s.associated,
   ncm_auto_cid |-> s.ncm_auto_cid, events |-> s.events]

\* The byte just processed ended a message that passes the validation.
EndsValidMessage ==
  /\ gs.rx_state = "ASYNC" /\ gs'.rx_state = "IDLE"
  /\ PassesValidation(gs'.rx_async_subtype, gs'.rx_async)

\* C19: the bytes of an <ESC>A message that fails validation change nothing
\* of the connection table, associated, ncm_auto_cid and the event flags: a
\* byte of an <ESC>A message changes them only when it ends a message that
\* passes the validation.
C19_RejectedChangesNothing ==
  [][(op'.name = "processIncoming" /\ gs.rx_state \in {"ESC_A", "ASYNC"}
      /\ ~EndsValidMessage) => Tracked(gs') = Tracked(gs)]_vars

\* A rejected message has just ended, with a connection and an association to
\* lose.
C19_Witness ==
  /\ op.name = "processIncoming" /\ op.pre = "ASYNC" /\ gs.rx_state = "IDLE"
  /\ ~PassesValidation(gs.rx_async_subtype, gs.rx_async)
  /\ Len(gs.rx_async) = RX_ASYNC_SIZE
  /\ gs.associated /\ gs.connections[1].connected /\ gs.ncm_auto_cid = 1


\* This step processed a connect event for cid, which was connected.
Reconnects(cid) ==
  /\ gs'.g_cycle = Append(gs.g_cycle, <<"connect", cid>>)
  /\ gs.connections[cid].connected

\* cid is the NCM auto CID and its connection was delivered, or is no longer
\* pending.
DeliveredNcm(s, cid) == s.ncm_auto_cid = cid /\ "NCM_CONNECTED" \notin s.events

\* C20: a connect event for a connected CID leaves it connected with ssl and
\* error false and makes it the NCM auto CID; a pending NCM_CONNECTED of that
\* CID is cancelled and raised again, leaving the flags as they were; when
\* the CID was the delivered NCM auto CID, NCM_DISCONNECTED and NCM_CONNECTED
\* are both pending afterwards; a CID that was not the NCM auto CID raises
\* NCM_CONNECTED only.
C20_ReconnectDisconnectsFirst ==
  [][\A cid \in 0..MAX_CID :
       Reconnects(cid) =>
         /\ gs'.connections[cid].connected
         /\ ~gs'.connections[cid].error
         /\ ~gs'.connections[cid].ssl
         /\ gs'.ncm_auto_cid = cid
         /\ DeliveredNcm(gs, cid) =>
              {"NCM_DISCONNECTED", "NCM_CONNECTED"} \subseteq gs'.events
         /\ gs'.events =
              IF DeliveredNcm(gs, cid)
              THEN gs.events \cup {"NCM_DISCONNECTED", "NCM_CONNECTED"}
              ELSE gs.events \cup {"NCM_CONNECTED"}]_vars

\* A delivered NCM connection with ssl and error set was reported connected
\* again.
C20_Witness ==
  /\ gs.callbacks = AllCallbacks
  /\ gs.g_replaced =
       [cid |-> ReconnectCid, ssl |-> TRUE, error |-> TRUE, delivered |-> TRUE]
  /\ ~gs.connections[ReconnectCid].ssl /\ ~gs.connections[ReconnectCid].error
  /\ gs.events = {"NCM_DISCONNECTED", "NCM_CONNECTED"}
  /\ gs.ncm_auto_cid = ReconnectCid
  /\ gs.connections[ReconnectCid].connected


\* The code processResponseLine gives a line the module sent.
CodeOf(line, has_connect_cid) == processResponseLine(line, has_connect_cid).code

Ends(line, has_connect_cid) == CodeOf(line, has_connect_cid) \notin {"UNKNOWN", "CON_SUCCESS"}

\* The bytes of the lines, each followed by \r\n.
RECURSIVE Normalized(_)
Normalized(lines) ==
  IF lines = <<>> THEN <<>> ELSE Head(lines) \o <<CH_CR, CH_LF>> \o Normalized(Tail(lines))

\* A call of readResponse(buf, len) returned, not latched before, after the
\* module sent lines of data that fill the destination and then one line
\* that ends the wait.
FullThenTerminal ==
  /\ op.name = "readResponseData"
  /\ ~op.pre.latched
  /\ Len(op.arg) >= 2
  /\ \A i \in 1..(Len(op.arg) - 1) : op.arg[i] \in DataLines
  /\ op.arg[Len(op.arg)] \in TerminalLines
  /\ Len(Normalized(SubSeq(op.arg, 1, Len(op.arg) - 1))) >= op.pre.len
  /\ op.pre.len >= MAX_RESPONSE_SIZE

\* C21: when the lines of data before it have filled the destination, the
\* line that ends the wait is still classified with its own code.
C21_TerminalLineSurvivesFullBuffer ==
  FullThenTerminal =>
    op.res = CodeOf(op.arg[Len(op.arg)], op.pre.has_connect_cid)


\* The lines of op.arg that processResponseLine does not recognize.
Unrecognized == SelectSeq(op.arg, LAMBDA line : CodeOf(line, op.pre.has_connect_cid) = "UNKNOWN")

\* A call of readResponse(buf, len) that started unlatched returned a code
\* and set *len.
ReturnedData ==
  /\ op.name = "readResponseData"
  /\ ~op.pre.latched
  /\ op.res # "UNRECOVERABLE_ERROR"

\* C22: the data readResponse(buf, len) returns is a prefix of the
\* unrecognized lines the module sent, each followed by \r\n.
C22_DataIsPrefix ==
  ReturnedData => (gs.ub = "none" /\ IsPrefix(op.flag.data, Normalized(Unrecognized)))

\* The same for the calls that stay within defined behaviour.
C22_DefinedDataIsPrefix ==
  (ReturnedData /\ gs.ub = "none") => IsPrefix(op.flag.data, Normalized(Unrecognized))


\* The position of the first line that ends the wait, or 0.
FirstEnding(lines, has_connect_cid) ==
  IF \E i \in 1..Len(lines) : Ends(lines[i], has_connect_cid)
  THEN CHOOSE i \in 1..Len(lines) :
         /\ Ends(lines[i], has_connect_cid)
         /\ \A j \in 1..(i - 1) : ~Ends(lines[j], has_connect_cid)
  ELSE 0

\* The CID of the last CON_SUCCESS line among the lines, or INVALID_CID.
RECURSIVE LastConnectCid(_, _)
LastConnectCid(lines, has_connect_cid) ==
  IF lines = <<>> THEN INVALID_CID
  ELSE On(processResponseLine(lines[Len(lines)], has_connect_cid), LAMBDA p :
         IF p.code = "CON_SUCCESS" THEN p.cid
         ELSE LastConnectCid(SubSeq(lines, 1, Len(lines) - 1), has_connect_cid))

\* A call of one of the three readResponse overloads returned, on an engine
\* that was not latched.
ReturnedResponse ==
  /\ op.name \in {"readResponseData", "readResponseCallback", "readResponseDiscard"}
  /\ ~op.pre.latched

\* What the claim says of a call over the lines in op.arg, the first k of
\* which it is to consume: the unrecognized lines among them went where the
\* read mode says and the last CON_SUCCESS line left its CID.
HandledLines(k) ==
  LET before == SelectSeq(SubSeq(op.arg, 1, k),
                          LAMBDA line : CodeOf(line, op.pre.has_connect_cid) = "UNKNOWN")
  IN  /\ op.name = "readResponseCallback" => op.flag.passed = before
      /\ op.name = "readResponseDiscard" => op.flag.passed = <<>>
      /\ op.name = "readResponseData" =>
           (op.flag.passed = <<>>
            /\ (op.res # "UNRECOVERABLE_ERROR" => IsPrefix(op.flag.data, Normalized(before))))
      /\ op.flag.connect_cid = LastConnectCid(SubSeq(op.arg, 1, k), op.pre.has_connect_cid)

\* C23: a call returns the code of the first line that is neither UNKNOWN
\* nor CON_SUCCESS, leaving the lines after it unread, and returns the fault
\* code when there is no such line; the lines before it are handled by the
\* read mode and never end the wait.
C23_ReturnsOnFirstTerminal ==
  ReturnedResponse =>
    LET k == FirstEnding(op.arg, op.pre.has_connect_cid)
    IN  IF k = 0
        THEN op.res = "UNRECOVERABLE_ERROR" /\ HandledLines(Len(op.arg))
        ELSE /\ op.res = CodeOf(op.arg[k], op.pre.has_connect_cid)
             /\ Pending = SubSeqFrom(op.arg, k + 1)
             /\ HandledLines(k)

\* The same for the calls whose destination never fills up.
C23_RoomyReturnsOnFirstTerminal ==
  (ReturnedResponse /\ ~op.flag.dropped) => C23_ReturnsOnFirstTerminal


\* The number the characters write in the base, every character taken for
\* its digit value.
RECURSIVE NumberWritten(_, _)
NumberWritten(buf, base) ==
  IF buf = <<>> THEN 0
  ELSE NumberWritten(SubSeq(buf, 1, Len(buf) - 1), base) * base + DigitValue(buf[Len(buf)])

AllDigitsOf(buf, base) ==
  \A i \in 1..Len(buf) : DigitValue(buf[i]) >= 0 /\ DigitValue(buf[i]) < base

\* C24: parseNumber succeeds exactly when every character is a digit of the
\* base and the number written fits the destination (op.flag is its largest
\* value), and then stores that number.
C24_ParseNumberExact ==
  op.name \in {"parseNumber16", "parseNumber8"} =>
    /\ op.res.ok <=> (AllDigitsOf(op.arg, op.pre) /\ NumberWritten(op.arg, op.pre) <= op.flag)
    /\ op.res.ok => op.res.val = NumberWritten(op.arg, op.pre)


\* The octets of an address: the characters between the dots.
RECURSIVE SplitOctets(_, _)
SplitOctets(str, octet) ==
  IF str = <<>> THEN <<octet>>
  ELSE IF Head(str) = CH_DOT THEN <<octet>> \o SplitOctets(Tail(str), <<>>)
  ELSE SplitOctets(Tail(str), Append(octet, Head(str)))

OctetsOf(str) == SplitOctets(str, <<>>)

\* An octet of 256 or more, an empty octet, or more than four octets.
Malformed(str) ==
  \/ Len(OctetsOf(str)) > 4
  \/ \E i \in 1..Len(OctetsOf(str)) :
       \/ OctetsOf(str)[i] = <<>>
       \/ AllDigitsOf(OctetsOf(str)[i], 10) /\ NumberWritten(OctetsOf(str)[i], 10) >= 256

\* C25: parseIpAddress rejects every malformed address, and the octets it
\* stores for an address it accepts are the decimal numbers written.
C25_ParseIpAddressExact ==
  op.name = "parseIpAddress" =>
    /\ Malformed(op.arg) => ~op.res.ok
    /\ op.res.ok =>
         \A i \in 1..Len(OctetsOf(op.arg)) :
           i <= 4 => op.res.ip[i] = NumberWritten(OctetsOf(op.arg)[i], 10)


\* The bytes the module takes from the first n bytes on the wire: on SPI
\* the IDLE fillers and the ESCAPE introducers are dropped and the byte after
\* an introducer is restored.
LogicalWire(n) ==
  IF gs.transport # "spi" THEN SubSeq(gs.g_wire, 1, n)
  ELSE SelectSeq([i \in 1..n |->
                    IF gs.g_wire[i] = SPI_SPECIAL_ESC THEN -1
                    ELSE IF i > 1 /\ gs.g_wire[i - 1] = SPI_SPECIAL_ESC
                    THEN Xor8(gs.g_wire[i], SPI_ESC_XOR)
                    ELSE IF gs.g_wire[i] = SPI_SPECIAL_IDLE THEN -1
                    ELSE gs.g_wire[i]],
                 LAMBDA b : b >= 0)

\* The k-th frame of the request in op.arg and the first n frames in a row.
FrameOf(k) ==
  BulkHeader(op.arg.cid, Len(Chunk(op.arg.buf, (k - 1) * MAX_BULK)))
    \o Chunk(op.arg.buf, (k - 1) * MAX_BULK)

RECURSIVE FramesUpTo(_)
FramesUpTo(n) == IF n = 0 THEN <<>> ELSE FramesUpTo(n - 1) \o FrameOf(n)

FrameCount == (Len(op.arg.buf) + MAX_BULK - 1) \div MAX_BULK

\* A writeData of more than MAX_BULK bytes is in progress or has returned.
ChunkedWrite ==
  /\ op.name = "writeData"
  /\ op.arg.cid <= MAX_CID
  /\ Len(op.arg.buf) > MAX_BULK

\* What C26 says of a chunked write: when the k-th answer arrived the wire
\* held the frames before the k-th and the three bytes of its prefix, no
\* more; after <ESC>F nothing more is written and the call returns false;
\* what is on the wire is always a part of the frames of the request from
\* their start, and all of them when the call returns true.
FramesInOrder ==
  /\ \A k \in 1..Len(gs.g_acks) :
       LogicalWire(gs.g_acks[k].at) = FramesUpTo(k - 1) \o SubSeq(FrameOf(k), 1, 3)
  /\ \A k \in 1..Len(gs.g_acks) :
       ~gs.g_acks[k].ok =>
         /\ k = Len(gs.g_acks)
         /\ op.pre = "returned" /\ op.res = "false"
         /\ Len(gs.g_wire) = gs.g_acks[k].at
  /\ IsPrefix(LogicalWire(Len(gs.g_wire)), FramesUpTo(FrameCount))
  /\ (op.pre = "returned" /\ op.res = "true") =>
       LogicalWire(Len(gs.g_wire)) = FramesUpTo(FrameCount)

\* C26: a writeData of more than 1400 bytes writes consecutive frames of at
\* most 1400 payload bytes that add up to the request, the length and the
\* payload of each only after the <ESC>O for its prefix, and nothing after
\* an <ESC>F, which makes it return false.
C26_ChunkedFrames == ChunkedWrite => FramesInOrder

\* The same on the serial transport, where writeRaw() writes all it is given.
C26_SerialChunkedFrames == (ChunkedWrite /\ gs.transport = "serial") => FramesInOrder


\* A writeData that returned true.
WroteTrue ==
  /\ op.name = "writeData"
  /\ op.pre = "returned" /\ op.res = "true"

\* C27: writeData returns true only if every byte of its headers and of its
\* payload was written to the transport.
C27_TrueOnlyIfWritten ==
  WroteTrue => LogicalWire(Len(gs.g_wire)) = FramesUpTo(FrameCount)

\* The same on the serial transport, where writeRaw() writes all it is given.
C27_SerialTrueOnlyIfWritten ==
  (WroteTrue /\ gs.transport = "serial") =>
    LogicalWire(Len(gs.g_wire)) = FramesUpTo(FrameCount)


\* A writeRaw() on SPI has returned; op.arg is its buffer.
WroteRaw == op.name = "writeRaw" /\ gs.transport = "spi"

\* The IDLE fillers among the bytes the call put on the wire.
IdleCount == Cardinality({i \in 1..Len(gs.g_wire) : gs.g_wire[i] = SPI_SPECIAL_IDLE})

\* The call ended within its budget: at most WRITE_TRIES fillers, at most two
\* transfers for each byte of the buffer, and the data bytes it put on the
\* wire are the first bytes of the buffer in order.
WriteRawBounded ==
  /\ IdleCount <= WRITE_TRIES
  /\ Len(gs.g_wire) <= 2 * Len(op.arg) + WRITE_TRIES
  /\ IsPrefix(LogicalWire(Len(gs.g_wire)), op.arg)

\* C28 (as stated): writeRaw on SPI ends whatever the module does, each
\* iteration writes the next data byte or, under XOFF, one IDLE out of at most
\* 1024, and no data byte goes out while spi_xoff is set.
C28_WriteRawHoldsUnderXoff == WroteRaw => (WriteRawBounded /\ gs.g_held = "none")

\* C28 (amended): writeRaw on SPI ends whatever the module does, each
\* iteration writes the next data byte or, under XOFF, one IDLE out of at most
\* 1024, and no iteration starts a data byte while spi_xoff is set; the second
\* byte of an escape pair still goes out when the transfer of the introducer
\* set spi_xoff.
C28_WriteRawStartsNoByteUnderXoff == WroteRaw => (WriteRawBounded /\ gs.g_held # "byte")

\* XOFF came in during the introducer of an escaped first byte: the pair was
\* completed, and the second byte waited for all of the 1024 tries.
C28_Witness ==
  /\ WroteRaw
  /\ gs.g_held = "pair" /\ gs.spi_xoff
  /\ IdleCount = WRITE_TRIES
  /\ Len(op.arg) = 2
  /\ LogicalWire(Len(gs.g_wire)) = SubSeq(op.arg, 1, 1)

\* The result of a call that found nothing for its CID.
Nothing == IF op.name \in {"readData", "peekData"} THEN -1 ELSE 0

\* A call for a CID other than that of the oldest unconsumed frame.
AskedOther ==
  /\ op.name \in {"availableData", "peekData", "readData", "readData(buf)"}
  /\ op.flag.oldest \notin {INVALID_CID, op.arg[1]}

\* The call took nothing and left the frame of the oldest CID as it was.
FrameKept ==
  /\ gs.ub = "none"
  /\ op.arg[2] = Nothing
  /\ Len(gs.g_out) + Len(gs.g_drop) = op.flag.taken
  /\ DrainOf(gs, op.flag.oldest, MaxAskFrames * MaxLen) = op.flag.drain

\* C29: while the oldest unconsumed frame is of CID a, availableData(b)
\* returns 0, readData(b) returns -1 or 0 bytes and peekData(b) returns -1
\* for every other CID b, also with a frame of b queued behind, and the call
\* neither takes nor reorders a payload byte of the frame of a.
C29_OtherCidWaits == AskedOther => FrameKept

\* The same while no enqueue has overflowed the ring.
C29_SoundOtherCidWaits == (AskedOther /\ ~op.flag.full) => FrameKept


\* availableData, peekData or single-byte readData was called with the ring
\* empty.
AskedEmpty ==
  /\ op.name \in {"availableData", "peekData", "readData"}
  /\ op.flag.empty

\* C30: availableData(cid), peekData(cid) and single-byte readData(cid)
\* called with the ring empty make at most one readRaw() call before they
\* return, whatever the module is sending.
C30_OnePollWhenEmpty == AskedEmpty => gs.g_reads <= 1

\* The same while a frame is in progress (tail_frame.length > 0) or the
\* module sends nothing.
C30_OnePollInFrame ==
  (AskedEmpty /\ (op.flag.length > 0 \/ op.flag.quiet)) => gs.g_reads <= 1


\* The state in which readData (lines 268-284) and getData (lines 1211-1220)
\* take the next byte directly from the transport as payload: the ring is
\* empty and tail_frame still has bytes to come.
DirectRead ==
  /\ gs.ub = "none"
  /\ gs.rx_data_head = gs.rx_data_tail
  /\ gs.tail_frame.length > 0

\* The receive state machine is inside the payload of the frame that
\* tail_frame describes.
InTailFrame ==
  /\ gs.rx_state = "BULK"
  /\ gs.head_frame.cid = gs.tail_frame.cid
  /\ gs.head_frame.length = gs.tail_frame.length

\* C31: whenever readData or getData takes a byte directly from the
\* transport as payload (ring empty and tail_frame.length > 0), rx_state is
\* BULK and head_frame is the very frame described by tail_frame (same cid,
\* same length), so no header, async or response byte is delivered as
\* payload.
C31_DirectReadInBulk == DirectRead => InTailFrame

\* The same while no enqueue has overflowed the ring.
C31_SoundDirectReadInBulk == (DirectRead /\ ~gs.g_full) => InTailFrame


\* readResponse returned after the module sent a reply with an escape
\* sequence inside.
ReadMixed == op.name = "readResponse"

\* The call returned what it returns for the reply alone, and the ring holds
\* what the escape sequence alone leaves there.
EscapeApart ==
  /\ op.flag.reply = op.flag.plain
  /\ op.flag.ring = op.flag.alone

\* C32: while readResponse accumulates a reply line, the bytes of an escape
\* sequence that arrives in between (the ESC byte, a Z / y / A header, async
\* payload, bulk payload) all go to processIncoming and never to the line
\* accumulator, no byte of the reply is written to the ring, and the part
\* of the line accumulated before the escape sequence continues intact.
C32_EscapesBypassLine == ReadMixed => EscapeApart

\* The same for the escape sequences that declare at least one byte.
C32_SoundEscapesBypassLine ==
  (ReadMixed /\ ~DeclaresNothing(op.arg[2])) => EscapeApart


\* The step processed the last byte of the async message of the given
\* subtype for the CID: the module sends one message at a time, and rx_async
\* keeps the payload of the message processed last.
FinishedAsync(subtype, cid) ==
  /\ gs.serial # <<>>
  /\ gs'.serial = <<>>
  /\ gs'.rx_state = "IDLE"
  /\ gs'.rx_async_subtype = subtype
  /\ gs'.rx_async = <<HexDigit(subtype), CH_SP, HexDigit(cid)>>
  /\ LET message == AsyncBytes(subtype, 3, gs'.rx_async)
     IN  gs.serial = SubSeqFrom(message, Len(message) + 1 - Len(gs.serial))

\* A plain disconnect message disconnects the CID and leaves its error flag
\* as it was; a socket failure disconnects it.
AsyncDisconnects(cid) ==
  /\ FinishedAsync(2, cid) =>
       /\ ~gs'.connections[cid].connected
       /\ gs'.connections[cid].error = gs.connections[cid].error
  /\ FinishedAsync(0, cid) => ~gs'.connections[cid].connected

\* The error flag stays set under every operation until the next connect
\* event of the CID or end().
ErrorStays(cid) ==
  (gs.connections[cid].error /\ ~FinishedAsync(1, cid) /\ op'.name # "end")
    => gs'.connections[cid].error

\* C33: an async socket-failure message (subtype 0x0) for CID c sets
\* connections[c].error and disconnects c, a plain disconnect message
\* (subtype 0x2) disconnects c without setting error, and the error flag
\* stays true under every operation until the next connect event for c or a
\* begin/end reset.
C33_SocketFailureMarksError ==
  [][/\ FinishedAsync(0, FaultCid) => gs'.connections[FaultCid].error
     /\ AsyncDisconnects(FaultCid)
     /\ ErrorStays(FaultCid)]_vars

\* The same without the error flag of the socket failure.
C33_DisconnectsAndErrorStays ==
  [][AsyncDisconnects(FaultCid) /\ ErrorStays(FaultCid)]_vars


\* The cells of the header record that ends at the end of rx_data.
LastRecord == [i \in 1..FRAME_SIZE |-> gs.rx_data[RX_DATA_SIZE - FRAME_SIZE + i - 1]]

C35_CidsWithinTable ==
  /\ gs.ub # "connections index"
  /\ gs.head_frame.cid <= MAX_CID
  /\ gs.tail_frame.cid <= MAX_CID
  /\ gs.ncm_auto_cid \in (0..MAX_CID) \cup {INVALID_CID}


\* The last byte of a UDP-server header was processed with rx_async full.
FullHeaderEnded ==
  /\ op.name = "processIncoming"
  /\ op.pre = "ESC_y_3"
  /\ gs.rx_async_left = 0
  /\ Len(gs.rx_async) = RX_ASYNC_SIZE

\* C36: for every byte sequence following <ESC>y, including header text
\* longer than rx_async, parsing the UDP-server header never reads or writes
\* outside the bytes stored in rx_async (the scans for ' ' and '\t' stay
\* within them), and an overlong header is rejected and returns rx_state to
\* IDLE.
C36_HeaderScanInside ==
  /\ gs.ub # "rx_async stale read"
  /\ FullHeaderEnded => gs.rx_state = "IDLE"

\* The same for the headers that fit rx_async.
C36_FittingHeaderScanInside ==
  Len(gs.rx_async) < RX_ASYNC_SIZE => gs.ub # "rx_async stale read"


\* A call of readResponse returned.
ReturnedAny ==
  op.name \in {"readResponseData", "readResponseCallback", "readResponseDiscard"}

\* line_start <= read <= *len, with *len as the sketch passed it.
CursorsInsideDestination ==
  /\ op.flag.line_start <= op.flag.read
  /\ op.flag.read <= op.pre.len

\* C37: in every iteration of readResponseInternal line_start <= read <=
\* *len holds and every write into the destination is at an index strictly
\* below *len, also in the branch that evicts a byte of the previous line
\* when the buffer is full.
C37_WritesInsideDestination ==
  ReturnedAny => (CursorsInsideDestination /\ ~op.flag.overrun)

\* The part about the two cursors alone.
C37_CursorsInsideDestination == ReturnedAny => CursorsInsideDestination


\* The pending flags agree with the engine: an association reported is one
\* that exists, and so is an NCM connection.
EventsAgree ==
  /\ ("ASSOCIATED" \in gs.events) => gs.associated
  /\ ("NCM_CONNECTED" \in gs.events) =>
       (/\ gs.ncm_auto_cid \in 0..MAX_CID
        /\ gs.connections[gs.ncm_auto_cid].connected)

\* C38: in every reachable state, across all operations including begin()
\* and end(), EVENT_ASSOCIATED pending implies associated == true and
\* EVENT_NCM_CONNECTED pending implies that ncm_auto_cid is a valid CID whose
\* connection record has connected == true, so loop() never reports an
\* association or an NCM connection that does not exist.
C38_EventsAgreeWithState == EventsAgree

\* The same until end() is called.
C38_EventsAgreeUntilEnd == gs.transport # "none" => EventsAgree

=============================================================================
